---------------------------- MODULE Spec2Model ----------------------------
(***************************************************************************)
(* Model of the volttron-testing mock harness: the TestServer of           *)
(* src/src/volttrontesting/server_mock.py with its in-memory pubsub, its    *)
(* schedule wrappers and its scheduled-event bookkeeping.                  *)
(*                                                                         *)
(* volttrontesting/memory_pubsub.py (MemoryPubSub, MemorySubscriber,       *)
(* PublishedMessage) is imported by server_mock.py but is not among the    *)
(* source files; its three definitions are modelled from spec.md 4.1 and   *)
(* from the way the tests use them.                                        *)
(***************************************************************************)
EXTENDS Integers, Sequences, FiniteSets, TLC

(***************************************************************************)
(* Bounds of the model.                                                    *)
(***************************************************************************)
MaxSubs == 2
MaxPublish == 2
MaxEvents == 2
MaxSchedEvents == 1
MaxRuns == 2
MaxSchedTime == 1
MaxTimeout == 2
MaxTime == 3
MaxServers == 2
MaxTriggers == 2
MaxGreenlets == 1
MaxDelayed == 2
MaxLogs == 2
MaxInterceptors == 2
MaxRestores == 2
MaxPrefixSubs == 3

(***************************************************************************)
(* Small input domains.                                                    *)
(***************************************************************************)
\* Topics are strings; a string is the sequence of its characters.
T_dca == <<"d", "/", "c", "/", "a">>
T_ot == <<"o", "/", "t">>
T_dcsa == <<"d", "/", "c", "/", "s", "/", "a">>
Topics == {T_dca, T_ot, T_dcsa}

\* Patterns are regular expressions; a pattern is the sequence of its
\* tokens: a literal character, [^/]+ ("seg") or .* ("any").
Lit(c) == <<"lit", c>>
TokSeg == <<"seg", "">>
TokAny == <<"any", "">>
P_d_seg_a == <<Lit("d"), Lit("/"), TokSeg, Lit("/"), Lit("a")>>
P_d_any == <<Lit("d"), Lit("/"), TokAny>>
Patterns == {P_d_seg_a, P_d_any}

\* headers: None or a dict (a set of key/value pairs)
HeadersNone == [none |-> TRUE, items |-> {}]
HeadersSender == [none |-> FALSE, items |-> {<<"sender", "pub">>}]
HeadersNoSender == [none |-> FALSE, items |-> {<<"k", "v">>}]
HeadersSet == {HeadersNone, HeadersSender, HeadersNoSender}
\* the peer an agent names when it subscribes
Peers == {"pubsub", "other"}
Buses == {"", "b1"}
Messages == {"m1"}

\* Callables handed to subscribe: one that records, one that raises.
NoCallback == "None"
Callbacks == {"cb_ok", "cb_raise"}
CallbackRaises(fn) == fn = "cb_raise"

\* Agent objects and the identity each carries in agent.core.identity.
Agents == {"A1", "A2", "A3"}
IdentityOf(a) == IF a = "A2" THEN "agent2" ELSE "agent1"
Identities == {IdentityOf(a) : a \in Agents}

\* Who asks for a lifecycle event, and the keyword arguments passed along
Senders == {"admin"}
KwargsSet == {{}, {<<"multiplier", 3>>}}

\* Callables handed to the schedule wrapper and their stored arguments.
SchedCallbacks == {"cb_mul", "cb_fail"}
SchedCallbackRaises(fn) == fn = "cb_fail"
ArgsEmpty == <<>>
ArgsTen == <<10>>
KwargsEmpty == {}
KwargsMul3 == {<<"multiplier", 3>>}
Periods == {5, 10}
CronSchedules == {"0 * * * *", "*/15 * * * *"}
ScheduledTimes == {7}
EventTypes == {"periodic", "cron", "time"}

\* None for a number (period, scheduled_time, last_run) and for a string
NoneNum == -1
NoneStr == "None"
NoGreenlet == 0

VARIABLES
    \* MemoryPubSub
    subscribers,              \* registrations, in creation order
    published_messages,       \* the history
    last_delivery,            \* callback invocations of the latest publish
    publish_calls,            \* number of publish calls made so far
    subscribe_requests,       \* the (prefix, callback) of each subscribe call
    \* TestServer
    server_subscribers,       \* TestServer._subscribers
    connected_agents,         \* TestServer.__connected_agents__
    lifecycle_methods,        \* TestServer.__lifecycle_methods__
    pubsub_wrappers,          \* TestServer.__pubsub_wrappers__
    schedule_wrappers,        \* TestServer.__schedule_wrappers__
    scheduled_events,         \* TestServer.__scheduled_events__
    agent_log,                \* ServerLogWrapper._agent_log
    wrapper_target,           \* PubSubWrapper.__wrapper__
    \* ScheduledEvent objects, by object identity, and what their callbacks saw
    events,
    callback_calls,
    trigger_calls,            \* triggers made on each event while not cancelled
    \* the clock read by datetime.now()
    now,
    \* the verify_event_scheduled call in progress
    verify,
    \* the latest call made on the server and how it ended
    last_call,
    \* objects of an earlier TestServer() that are still referenced
    stale_pubsub,             \* the MemoryPubSub PubSubWrapper.__wrapper__ kept
    detached,                 \* wrappers agents hold that no registry holds
    \* ServerLogWrapper
    log_messages,             \* ServerLogWrapper._log_messages
    logger_sink,              \* where the patched methods of each Logger append
    \* lifecycle handlers run so far, and the object the latest call returned
    handler_calls,
    last_result,
    trigger_log,              \* lifecycle triggers made so far and how they ended
    log_calls,                \* calls made on Logger objects so far
    \* the pubsub entry points of each agent and the interceptors made for them
    entry_points,             \* what agent.vip.pubsub.publish / subscribe are
    interceptors,             \* the objects intercept_agent_pubsub returned
    \* greenlets spawned by run_scheduled_event_with_greenlet
    greenlets

pubsubVars == <<subscribers, published_messages, last_delivery, publish_calls,
                subscribe_requests, server_subscribers>>
registryVars == <<connected_agents, lifecycle_methods, pubsub_wrappers,
                  schedule_wrappers, agent_log, wrapper_target>>
schedVars == <<scheduled_events, events, callback_calls, trigger_calls>>
instanceVars == <<stale_pubsub, detached>>
logVars == <<log_messages, logger_sink>>
lifecycleVars == <<handler_calls, last_result, trigger_log, log_calls>>
interceptVars == <<entry_points, interceptors>>
auxVars == <<instanceVars, interceptVars, logVars, lifecycleVars, greenlets>>
vars == <<subscribers, published_messages, last_delivery, publish_calls,
          subscribe_requests, server_subscribers, connected_agents, lifecycle_methods,
          pubsub_wrappers, schedule_wrappers, scheduled_events, agent_log,
          wrapper_target, events, callback_calls, trigger_calls, now, verify,
          last_call, stale_pubsub, detached, log_messages, logger_sink,
          handler_calls, last_result, trigger_log, log_calls, greenlets,
          entry_points, interceptors>>

\* dict helpers: a dict is a function whose domain is its key set
EmptyDict == <<>>
DictSet(d, k, v) == [x \in (DOMAIN d) \cup {k} |-> IF x = k THEN v ELSE d[x]]
DictGet(d, k, default) == IF k \in DOMAIN d THEN d[k] ELSE default
Range(f) == {f[x] : x \in DOMAIN f}

(***************************************************************************)
(* MemoryPubSub (volttrontesting/memory_pubsub.py, modelled from spec.md    *)
(* 4.1): patterns are compiled regular expressions matched at the start of  *)
(* the topic (re.match), as the tests subscribing to a plain prefix show.   *)
(***************************************************************************)
RECURSIVE MatchFrom(_, _, _, _)
MatchFrom(p, i, t, j) ==
    IF i > Len(p) THEN TRUE
    ELSE CASE p[i][1] = "lit" ->
                  /\ j <= Len(t)
                  /\ t[j] = p[i][2]
                  /\ MatchFrom(p, i + 1, t, j + 1)
           [] p[i][1] = "seg" ->
                  \E k \in (j + 1)..(Len(t) + 1) :
                      /\ \A m \in j..(k - 1) : t[m] # "/"
                      /\ MatchFrom(p, i + 1, t, k)
           [] p[i][1] = "any" ->
                  \E k \in j..(Len(t) + 1) : MatchFrom(p, i + 1, t, k)

\* a match of a pattern that is as long as the topic
MatchesWholeTopic(p, t) ==
    /\ MatchFrom(p, 1, t, 1)
    /\ Len(p) = Len(t)

\* pattern.match(topic)
Matches(p, t) == MatchFrom(p, 1, t, 1)

\* The callable stored in a subscription: None, a callable with the router
\* signature (topic, headers, message, bus), or PubSubWrapper's
\* wrapper_callback around a callable with the VIP signature.
CbNone == [kind |-> "none", fn |-> NoCallback, peer |-> ""]
CbDirect(fn) == [kind |-> "direct", fn |-> fn, peer |-> ""]
CbWrapper(fn, peer) == [kind |-> "wrapper", fn |-> fn, peer |-> peer]

PublishedMessage(seq, topic, headers, message, bus) ==
    [sequence |-> seq, topic |-> topic, headers |-> headers,
     message |-> message, bus |-> bus]

MemorySubscriber(id, prefix, callback) ==
    [id |-> id, prefix |-> prefix, callback |-> callback, received |-> <<>>,
     registered |-> TRUE]

\* a lookup that never finds the sender
HeadersGetSenderUnknown(headers) == "unknown"

\* headers.get('sender', 'unknown')
HeadersGetSender(headers) ==
    IF \E kv \in headers.items : kv[1] = "sender"
    THEN (CHOOSE kv \in headers.items : kv[1] = "sender")[2]
    ELSE "unknown"

\* One callback invocation made while a message is delivered, as the
\* callable finally invoked sees it.
InvokeCallback(s, msg) ==
    IF s.callback.kind = "none" THEN <<>>
    ELSE IF s.callback.kind = "direct"
    THEN <<[sub |-> s.id, fn |-> s.callback.fn, kind |-> "direct",
            peer |-> "", sender |-> "", bus |-> msg.bus, topic |-> msg.topic,
            headers |-> msg.headers, message |-> msg.message,
            outcome |-> IF CallbackRaises(s.callback.fn) THEN "raised" ELSE "ok"]>>
    ELSE LET hdrs == IF msg.headers.none
                     THEN [none |-> FALSE, items |-> {}] ELSE msg.headers
         IN  <<[sub |-> s.id, fn |-> s.callback.fn, kind |-> "vip",
                peer |-> s.callback.peer, sender |-> HeadersGetSender(hdrs),
                bus |-> msg.bus, topic |-> msg.topic,
                headers |-> hdrs, message |-> msg.message,
                outcome |-> IF CallbackRaises(s.callback.fn) THEN "raised" ELSE "ok"]>>

\* Delivery that walks the subscriptions newest first.
RECURSIVE DispatchNewestFirst(_, _, _, _)
DispatchNewestFirst(subs, msg, i, calls) ==
    IF i > Len(subs) THEN [subscribers |-> subs, calls |-> calls]
    ELSE IF subs[i].registered /\ Matches(subs[i].prefix, msg.topic)
    THEN DispatchNewestFirst([subs EXCEPT ![i].received = Append(@, msg)], msg,
                             i + 1, InvokeCallback(subs[i], msg) \o calls)
    ELSE DispatchNewestFirst(subs, msg, i + 1, calls)

\* Delivery that lets the first exception of a callback end the loop.
RECURSIVE DispatchUntilRaise(_, _, _, _)
DispatchUntilRaise(subs, msg, i, calls) ==
    IF i > Len(subs) THEN [subscribers |-> subs, calls |-> calls]
    ELSE IF subs[i].registered /\ Matches(subs[i].prefix, msg.topic)
    THEN LET c == InvokeCallback(subs[i], msg)
             subs2 == [subs EXCEPT ![i].received = Append(@, msg)]
         IN  IF c # <<>> /\ c[1].outcome = "raised"
             THEN [subscribers |-> subs2, calls |-> calls \o c]
             ELSE DispatchUntilRaise(subs2, msg, i + 1, calls \o c)
    ELSE DispatchUntilRaise(subs, msg, i + 1, calls)

\* Delivery that still reaches the subscriptions that were removed.
RECURSIVE DispatchRemovedToo(_, _, _, _)
DispatchRemovedToo(subs, msg, i, calls) ==
    IF i > Len(subs) THEN [subscribers |-> subs, calls |-> calls]
    ELSE IF Matches(subs[i].prefix, msg.topic)
    THEN DispatchRemovedToo([subs EXCEPT ![i].received = Append(@, msg)], msg, i + 1,
                            calls \o InvokeCallback(subs[i], msg))
    ELSE DispatchRemovedToo(subs, msg, i + 1, calls)

\* The delivery loop of publish: the registered subscriptions in creation
\* order, each matching one receives the message; an exception of its
\* callback is caught.
RECURSIVE Dispatch(_, _, _, _)
Dispatch(subs, msg, i, calls) ==
    IF i > Len(subs) THEN [subscribers |-> subs, calls |-> calls]
    ELSE IF subs[i].registered /\ Matches(subs[i].prefix, msg.topic)
    THEN Dispatch([subs EXCEPT ![i].received = Append(@, msg)], msg, i + 1,
                  calls \o InvokeCallback(subs[i], msg))
    ELSE Dispatch(subs, msg, i + 1, calls)

\* a subscribe that hands the new subscription the matching part of the
\* history
MemoryPubSub_subscribe_Replaying(subs, prefix, callback) ==
    Append(subs, [MemorySubscriber(Len(subs) + 1, prefix, callback) EXCEPT
                     !.received = SelectSeq(published_messages,
                                            LAMBDA m : Matches(prefix, m.topic))])

\* subscribe: a new MemorySubscriber with an empty view is registered
MemoryPubSub_subscribe(subs, prefix, callback) ==
    Append(subs, MemorySubscriber(Len(subs) + 1, prefix, callback))

\* unsubscribe: the registration is removed from the router; the
\* MemorySubscriber object stays with whoever holds it
MemoryPubSub_unsubscribe(subs, i) == [subs EXCEPT ![i].registered = FALSE]

\* clear_all: every registration is removed
MemoryPubSub_clear_all(subs) ==
    [i \in DOMAIN subs |-> [subs[i] EXCEPT !.registered = FALSE]]

\* a reset that empties the view of every subscription
ResetReceivedOfAll(subs, i) == [j \in DOMAIN subs |-> [subs[j] EXCEPT !.received = <<>>]]

\* MemorySubscriber.reset_received_messages
ResetReceived(subs, i) == [subs EXCEPT ![i].received = <<>>]

\* a publish that puts the new message in front of the history
MemoryPubSub_publish_NewestFirst(subs, history, topic, headers, message, bus) ==
    LET msg == PublishedMessage(Len(history) + 1, topic, headers, message, bus)
        d == Dispatch(subs, msg, 1, <<>>)
    IN  [subscribers |-> d.subscribers,
         published_messages |-> <<msg>> \o history,
         calls |-> d.calls,
         msg |-> msg]

\* publish: next sequence number, history first, then delivery.
MemoryPubSub_publish(subs, history, topic, headers, message, bus) ==
    LET msg == PublishedMessage(Len(history) + 1, topic, headers, message, bus)
        d == Dispatch(subs, msg, 1, <<>>)
    IN  [subscribers |-> d.subscribers,
         published_messages |-> Append(history, msg),
         calls |-> d.calls,
         msg |-> msg]

(***************************************************************************)
(* TestServer and PubSubWrapper: the pubsub entry points.                  *)
(***************************************************************************)
DefaultBus == ""
PubSubPeer == "pubsub"

\* a publish that lets the exception of a callback out to its caller
PublishOutcomeRaising(calls) ==
    IF \E k \in DOMAIN calls : calls[k].outcome = "raised" THEN "raised" ELSE "returned"

\* how publish ends for its caller, given the callback invocations it made:
\* the exception of a callback was caught inside the delivery loop
PublishOutcome(calls) == "returned"

\* subscribe that registers the prefix without handing the callback on
TestServer_subscribe_NoCallback(subs, ssubs, prefix, callback) ==
    LET subs2 == MemoryPubSub_subscribe(subs, prefix, CbNone)
        subscriber == subs2[Len(subs2)].id
    IN  [subscribers |-> subs2,
         server_subscribers |-> Append(ssubs, subscriber),
         subscriber |-> subscriber]

\* TestServer.subscribe
TestServer_subscribe(subs, ssubs, prefix, callback) ==
    LET subs2 == MemoryPubSub_subscribe(subs, prefix, callback)
        subscriber == subs2[Len(subs2)].id
    IN  [subscribers |-> subs2,
         server_subscribers |-> Append(ssubs, subscriber),
         subscriber |-> subscriber]

\* publish that returns early when nobody has subscribed yet
TestServer_publish_OnlyWithSubscribers(subs, history, topic, headers, message, bus) ==
    IF Len(subs) = 0
    THEN [subscribers |-> subs, published_messages |-> history, calls |-> <<>>,
          msg |-> PublishedMessage(0, topic, headers, message, bus)]
    ELSE MemoryPubSub_publish(subs, history, topic, headers, message, bus)

\* TestServer.publish
TestServer_publish(subs, history, topic, headers, message, bus) ==
    MemoryPubSub_publish(subs, history, topic, headers, message, bus)

\* PubSubWrapper._do_publish: topic, headers and message are forwarded
PubSubWrapper_do_publish(subs, history, peer, topic, headers, message, bus) ==
    MemoryPubSub_publish(subs, history, topic, headers, message, DefaultBus)

Call(op, event, outcome, value) ==
    [op |-> op, event |-> event, outcome |-> outcome, value |-> value]
NoCall == Call("none", 0, "", NoneNum)
\* a call that returned normally and whose value the model does not keep
Returned == Call("call", 0, "returned", NoneNum)
NoDelivery == [topic |-> <<>>, calls |-> <<>>]
\* the latest call returned no object the model keeps
NoResult == [kind |-> "None"]
\* what an agent's publish and subscribe entry points are: the methods the
\* agent was built with, those of the PubSubWrapper made by the TestServer
\* instance s, or the forwarders of an interceptor
EntryOriginal == [kind |-> "original", ref |-> 0]
EntryWrapper(s) == [kind |-> "PubSubWrapper", ref |-> s]
EntryInterceptor(i) == [kind |-> "interceptor", ref |-> i]
\* no MemoryPubSub of an earlier construction is referenced
NoPubSub == [subscribers |-> <<>>, published_messages |-> <<>>]
\* the Logger objects of the process (logging.getLogger() is the root
\* logger) and the state of a Logger whose methods nobody has replaced
LoggerObjects == {"root", "agent_logger"}
NoSink == "unpatched"
VerifyIdle ==
    [pc |-> "idle", identity |-> "", event_type |-> NoneStr, period |-> NoneNum,
     cron_schedule |-> NoneStr, timeout |-> 0, start_time |-> 0, wake_at |-> 0,
     end_time |-> 0, sleeps |-> 0, match_at_call |-> FALSE, result |-> NoneStr]

\* the wrappers connect_agent gave agent a are those the registries hold
\* for its identity
InRegistry(a) ==
    /\ IdentityOf(a) \in DOMAIN pubsub_wrappers
    /\ pubsub_wrappers[IdentityOf(a)].agent = a

\* a PubSubWrapper has replaced the pubsub entry points of agent a
Intercepted(a) == InRegistry(a) \/ a \in DOMAIN detached

\* the wrappers agent a holds: agent.vip.pubsub.publish / subscribe are
\* methods of the first, agent.core._schedule_wrapper is the second
PubSubWrapperOf(a) ==
    IF InRegistry(a) THEN pubsub_wrappers[IdentityOf(a)] ELSE detached[a].pubsub
ScheduleWrapperOf(a) ==
    IF InRegistry(a) THEN schedule_wrappers[IdentityOf(a)] ELSE detached[a].schedule

Init ==
    /\ subscribers = <<>>
    /\ published_messages = <<>>
    /\ last_delivery = NoDelivery
    /\ publish_calls = 0
    /\ subscribe_requests = <<>>
    /\ server_subscribers = <<<<>>>>
    /\ connected_agents = EmptyDict
    /\ lifecycle_methods = EmptyDict
    /\ pubsub_wrappers = EmptyDict
    /\ schedule_wrappers = EmptyDict
    /\ scheduled_events = EmptyDict
    /\ agent_log = EmptyDict
    /\ wrapper_target = NoneStr
    /\ events = <<>>
    /\ callback_calls = <<>>
    /\ trigger_calls = <<>>
    /\ now = 0
    /\ verify = VerifyIdle
    /\ last_call = NoCall
    /\ stale_pubsub = NoPubSub
    /\ detached = EmptyDict
    /\ log_messages = <<>>
    /\ logger_sink = [l \in LoggerObjects |-> NoSink]
    /\ handler_calls = <<>>
    /\ last_result = NoResult
    /\ trigger_log = <<>>
    /\ log_calls = <<>>
    /\ greenlets = <<>>
    /\ entry_points = [a \in Agents |-> EntryOriginal]
    /\ interceptors = <<>>

\* server.subscribe(prefix, callback) on the TestServer instance s
ServerSubscribe(s, prefix, callback) ==
    /\ s \in DOMAIN server_subscribers
    /\ LET r == TestServer_subscribe(subscribers, server_subscribers[s], prefix,
                                     IF callback = NoCallback THEN CbNone
                                     ELSE CbDirect(callback))
       IN  /\ subscribers' = r.subscribers
           /\ server_subscribers' =
                  [server_subscribers EXCEPT ![s] = r.server_subscribers]
    /\ subscribe_requests' =
           Append(subscribe_requests, [prefix |-> prefix, callback |-> callback])
    /\ last_call' = Returned
    /\ UNCHANGED <<published_messages, last_delivery, publish_calls>>
    /\ UNCHANGED <<registryVars, schedVars, now, verify, auxVars>>

\* server.publish(topic, headers, message, bus)
ServerPublish(topic, headers, message, bus) ==
    /\ LET r == TestServer_publish(subscribers, published_messages,
                                   topic, headers, message, bus)
       IN  /\ subscribers' = r.subscribers
           /\ published_messages' = r.published_messages
           /\ last_delivery' = [topic |-> topic, calls |-> r.calls]
           /\ last_call' = Call("call", 0, PublishOutcome(r.calls), NoneNum)
    /\ publish_calls' = publish_calls + 1
    /\ UNCHANGED <<server_subscribers, subscribe_requests>>
    /\ UNCHANGED <<registryVars, schedVars, now, verify, auxVars>>

\* subscriber.reset_received_messages() on the i-th MemorySubscriber
ResetReceivedMessages(i) ==
    /\ i \in DOMAIN subscribers
    /\ subscribers' = ResetReceived(subscribers, i)
    /\ last_call' = Call("reset_received_messages", i, "returned", NoneNum)
    /\ UNCHANGED <<published_messages, last_delivery, publish_calls, server_subscribers,
                   subscribe_requests>>
    /\ UNCHANGED <<registryVars, schedVars, now, verify, auxVars>>

\* unsubscribe of the i-th subscription on the server's router
Unsubscribe(i) ==
    /\ i \in DOMAIN subscribers
    /\ subscribers' = MemoryPubSub_unsubscribe(subscribers, i)
    /\ last_call' = Call("unsubscribe", i, "returned", NoneNum)
    /\ UNCHANGED <<published_messages, last_delivery, publish_calls, server_subscribers,
                   subscribe_requests>>
    /\ UNCHANGED <<registryVars, schedVars, now, verify, auxVars>>

\* clear_all on the server's router
ClearAll ==
    /\ subscribers' = MemoryPubSub_clear_all(subscribers)
    /\ last_call' = Call("clear_all", 0, "returned", NoneNum)
    /\ UNCHANGED <<published_messages, last_delivery, publish_calls, server_subscribers,
                   subscribe_requests>>
    /\ UNCHANGED <<registryVars, schedVars, now, verify, auxVars>>

\* agent.vip.pubsub.subscribe(peer, prefix, callback) of an agent whose
\* entry points were replaced: PubSubWrapper._do_subscribe, which subscribes
\* through the TestServer instance the wrapper was made for
AgentSubscribe(a, peer, prefix, callback) ==
    /\ Intercepted(a)
    /\ LET id == IdentityOf(a)
           w == PubSubWrapperOf(a)
           r == TestServer_subscribe(subscribers, server_subscribers[w._test_server],
                                     prefix, CbWrapper(callback, peer))
           subscription == [prefix |-> prefix, callback |-> callback,
                            anysub_subscriber |-> r.subscriber]
           old == w._subscriptions
           w2 == [w EXCEPT !._subscriptions =
                      DictSet(old, prefix,
                              Append(DictGet(old, prefix, <<>>), subscription))]
       IN  /\ subscribers' = r.subscribers
           /\ server_subscribers' =
                  [server_subscribers EXCEPT ![w._test_server] = r.server_subscribers]
           /\ IF InRegistry(a)
              THEN /\ pubsub_wrappers' = [pubsub_wrappers EXCEPT ![id] = w2]
                   /\ detached' = detached
              ELSE /\ detached' = [detached EXCEPT ![a].pubsub = w2]
                   /\ pubsub_wrappers' = pubsub_wrappers
    /\ subscribe_requests' =
           Append(subscribe_requests, [prefix |-> prefix, callback |-> callback])
    /\ last_call' = Returned
    /\ UNCHANGED <<published_messages, last_delivery, publish_calls>>
    /\ UNCHANGED <<connected_agents, lifecycle_methods, schedule_wrappers,
                   agent_log, wrapper_target>>
    /\ UNCHANGED <<schedVars, now, verify, stale_pubsub, logVars, lifecycleVars,
                   greenlets, interceptVars>>

\* agent.vip.pubsub.publish(peer, topic, headers, message, bus) of an agent
\* whose entry points were replaced: PubSubWrapper._do_publish, which
\* publishes on the MemoryPubSub that PubSubWrapper.__wrapper__ refers to
AgentPublish(a, topic, headers, message, bus) ==
    /\ Intercepted(a)
    /\ wrapper_target # NoneStr
    /\ IF wrapper_target = "server_pubsub"
       THEN LET r == PubSubWrapper_do_publish(subscribers, published_messages,
                                              PubSubPeer, topic, headers, message, bus)
            IN  /\ subscribers' = r.subscribers
                /\ published_messages' = r.published_messages
                /\ last_delivery' = [topic |-> topic, calls |-> r.calls]
                /\ stale_pubsub' = stale_pubsub
       ELSE LET r == PubSubWrapper_do_publish(stale_pubsub.subscribers,
                                              stale_pubsub.published_messages,
                                              PubSubPeer, topic, headers, message, bus)
            IN  /\ stale_pubsub' = [subscribers |-> r.subscribers,
                                    published_messages |-> r.published_messages]
                /\ last_delivery' = [topic |-> topic, calls |-> r.calls]
                /\ UNCHANGED <<subscribers, published_messages>>
    /\ publish_calls' = publish_calls + 1
    /\ last_call' = Call("agent_publish", 0, PublishOutcome(last_delivery'.calls), NoneNum)
    /\ UNCHANGED <<server_subscribers, subscribe_requests>>
    /\ UNCHANGED <<registryVars, schedVars, now, verify, detached, logVars,
                   lifecycleVars, greenlets, interceptVars>>

(***************************************************************************)
(* TestServer.connect_agent                                                *)
(***************************************************************************)
Hooks == {"onsetup", "onstart", "onstop"}
\* the @Core.receiver hooks each agent's class declares
AgentHooks(a) ==
    CASE a = "A1" -> {"onsetup", "onstart"}
      [] a = "A2" -> {}
      [] OTHER -> {"onstop"}

\* the name of the method each agent's class decorates for a hook: the
\* hook's own name, except that A1 handles onstart in a method `starting`
HandlerName(a, h) == IF a = "A1" /\ h = "onstart" THEN "starting" ELSE h

\* what the handler methods return
HandlerReturn(a, name) == IF name = "starting" THEN "started" ELSE NoneStr

\* __find_lifecycle_methods__ and __get_lifecycle_dict__: the hooks found
\* in the class, each with the bound method of the agent that handles it
GetLifecycleDict(a) ==
    [h \in AgentHooks(a) |-> [self |-> a, name |-> HandlerName(a, h)]]

RootLogger == "root"
Loggers == {NoneStr, "agent_logger"}

\* ServerLogWrapper.add_agent_log
AddAgentLog(log, identity, logger) ==
    DictSet(log, identity, IF logger = NoneStr THEN RootLogger ELSE logger)

\* the Logger object connect_agent patches: the one passed, else the root
LoggerOf(logger) == IF logger = NoneStr THEN RootLogger ELSE logger

\* what connect_agent does once its checks have passed: the agent, its
\* lifecycle dict and two new wrappers are registered under the identity,
\* the wrappers are installed on the agent and the logger is patched
RegisterAgent(s, a, logger) ==
    LET identity == IdentityOf(a) IN
    /\ connected_agents' = DictSet(connected_agents, identity, a)
    /\ lifecycle_methods' =
           DictSet(lifecycle_methods, identity, GetLifecycleDict(a))
    /\ wrapper_target' =
           IF wrapper_target = NoneStr THEN "server_pubsub" ELSE wrapper_target
    /\ pubsub_wrappers' =
           DictSet(pubsub_wrappers, identity,
                   [agent |-> a, _test_server |-> s, _subscriptions |-> EmptyDict])
    /\ schedule_wrappers' =
           DictSet(schedule_wrappers, identity,
                   [_identity |-> identity, _test_server |-> s, _events |-> <<>>])
    /\ detached' = [x \in (DOMAIN detached) \ {a} |-> detached[x]]
    /\ agent_log' = AddAgentLog(agent_log, identity, logger)
    /\ logger_sink' = [logger_sink EXCEPT ![LoggerOf(logger)] = "server_log"]
    /\ entry_points' = [entry_points EXCEPT ![a] = EntryWrapper(s)]
    /\ last_call' = Call("connect_agent", 0, "returned", NoneNum)
    /\ UNCHANGED <<pubsubVars, schedVars, now, verify, stale_pubsub, log_messages,
                   lifecycleVars, greenlets, interceptors>>

\* connect_agent without its check of __connected_agents__
ConnectAgentOverwrite(s, a, logger) ==
    /\ s \in DOMAIN server_subscribers
    /\ RegisterAgent(s, a, logger)

\* An agent whose class decorates, as its last method, a handler whose def
\* statement is written on two lines: it carries the identity agent1.
MultiLineDefAgent == "A4"

\* __find_lifecycle_methods__ returns for the class of the agent: the
\* search for a line "def ...:" after the decorator finds one (m2), else
\* m2[0] raises TypeError
FindLifecycleMethodsReturns(a) == a # MultiLineDefAgent

\* server.connect_agent(agent, logger) on the TestServer instance s: the
\* two checks, then the agent is stored, then its handlers are discovered
\* and the wrappers made; what the discovery raises ends the call there
ConnectAgent(s, a, logger) ==
    /\ s \in DOMAIN server_subscribers
    /\ IF IdentityOf(a) = "" \/ IdentityOf(a) \in DOMAIN connected_agents
       THEN /\ last_call' = Call("connect_agent", 0, "ValueError", NoneNum)
            /\ UNCHANGED <<pubsubVars, registryVars, schedVars, now, verify, auxVars>>
       ELSE IF ~FindLifecycleMethodsReturns(a)
       THEN /\ connected_agents' = DictSet(connected_agents, IdentityOf(a), a)
            /\ last_call' = Call("connect_agent", 0, "raised", NoneNum)
            /\ UNCHANGED <<lifecycle_methods, pubsub_wrappers, schedule_wrappers,
                           agent_log, wrapper_target>>
            /\ UNCHANGED <<pubsubVars, schedVars, now, verify, auxVars>>
       ELSE RegisterAgent(s, a, logger)

(***************************************************************************)
(* intercept_agent_pubsub(agent, router) and the restore() of the          *)
(* interceptor it returns                                                  *)
(***************************************************************************)
Interceptor(a, original) ==
    [agent |-> a, original |-> original, installed |-> TRUE, restore_calls |-> 0]

\* a restore that puts the forwarders back when they are not installed
InterceptorRestoreToggle(i, ic, entry) ==
    IF ic.installed THEN ic.original ELSE EntryInterceptor(i)

\* restore(): the entry points the agent has after restore of interceptor
\* i: those saved at install, or what it has if restore was called before
InterceptorRestore(i, ic, entry) ==
    IF ic.installed THEN ic.original ELSE entry

\* intercept_agent_pubsub(agent, router): the entry points the agent has
\* are saved and forwarders to the router take their place
InterceptAgentPubsub(a) ==
    /\ interceptors' = Append(interceptors, Interceptor(a, entry_points[a]))
    /\ entry_points' = [entry_points EXCEPT ![a] = EntryInterceptor(Len(interceptors) + 1)]
    /\ last_call' = Call("intercept_agent_pubsub", 0, "returned", NoneNum)
    /\ UNCHANGED <<pubsubVars, registryVars, schedVars, now, verify, instanceVars,
                   logVars, lifecycleVars, greenlets>>

\* interceptor.restore()
Restore(i) ==
    /\ i \in DOMAIN interceptors
    /\ LET ic == interceptors[i]
       IN  /\ entry_points' = [entry_points EXCEPT ![ic.agent] =
                                  InterceptorRestore(i, ic, entry_points[ic.agent])]
           /\ interceptors' = [interceptors EXCEPT ![i].installed = FALSE,
                                                   ![i].restore_calls = @ + 1]
    /\ last_call' = Call("restore", i, "returned", NoneNum)
    /\ UNCHANGED <<pubsubVars, registryVars, schedVars, now, verify, instanceVars,
                   logVars, lifecycleVars, greenlets>>

(***************************************************************************)
(* trigger_setup_event / trigger_start_event / trigger_stop_event          *)
(***************************************************************************)
ServerResponse(identity, called_method, response) ==
    [kind |-> "ServerResponse", identity |-> identity,
     called_method |-> called_method, response |-> response]

\* one invocation of a lifecycle handler, as the handler sees it
HandlerCall(fn, sender, kwargs) ==
    [self |-> fn.self, method |-> fn.name, sender |-> sender, kwargs |-> kwargs]

LifecycleResult(outcome, calls, response) ==
    [outcome |-> outcome, calls |-> calls, response |-> response]

\* a dispatch that falls back on some declared handler when the hook asked
\* for has none
ExecuteLifecycleFallback(identity, lifecycle_method, members, sender, kwargs) ==
    IF DOMAIN members = {}
    THEN LifecycleResult("ValueError", <<>>, NoResult)
    ELSE LET h == IF lifecycle_method \in DOMAIN members THEN lifecycle_method
                  ELSE CHOOSE x \in DOMAIN members : TRUE
             fn == members[h]
         IN  LifecycleResult("returned", <<HandlerCall(fn, sender, kwargs)>>,
                             ServerResponse(identity, fn.name,
                                            HandlerReturn(fn.self, fn.name)))

\* a dispatch that hands the handler the sender alone
ExecuteLifecycleSenderOnly(identity, lifecycle_method, members, sender, kwargs) ==
    IF lifecycle_method \notin DOMAIN members
    THEN LifecycleResult("ValueError", <<>>, NoResult)
    ELSE LET fn == members[lifecycle_method]
         IN  LifecycleResult("returned", <<HandlerCall(fn, sender, {})>>,
                             ServerResponse(identity, fn.name,
                                            HandlerReturn(fn.self, fn.name)))

\* keyword arguments on which the handlers of the agents raise
KwargsFail == {<<"fail", 1>>}
HandlerRaises(fn, kwargs) == <<"fail", 1>> \in kwargs

\* a dispatch that catches what the handler raises and answers without a
\* value
ExecuteLifecycleCatching(identity, lifecycle_method, members, sender, kwargs) ==
    IF lifecycle_method \notin DOMAIN members
    THEN LifecycleResult("ValueError", <<>>, NoResult)
    ELSE LET fn == members[lifecycle_method]
         IN  LifecycleResult("returned", <<HandlerCall(fn, sender, kwargs)>>,
                             ServerResponse(identity, fn.name,
                                            IF HandlerRaises(fn, kwargs) THEN NoneStr
                                            ELSE HandlerReturn(fn.self, fn.name)))

\* __execute_lifecycle_method__: fn(sender, **kwargs) is called once,
\* outside any try, so what it raises ends the call
ExecuteLifecycleMethod(identity, lifecycle_method, members, sender, kwargs) ==
    IF lifecycle_method \notin DOMAIN members
    THEN LifecycleResult("ValueError", <<>>, NoResult)
    ELSE LET fn == members[lifecycle_method]
         IN  IF HandlerRaises(fn, kwargs)
             THEN LifecycleResult("raised", <<HandlerCall(fn, sender, kwargs)>>, NoResult)
             ELSE LifecycleResult("returned", <<HandlerCall(fn, sender, kwargs)>>,
                                  ServerResponse(identity, fn.name,
                                                 HandlerReturn(fn.self, fn.name)))

\* a check that lets every identity pass
CheckConnectedAlways(identity) == TRUE

\* __check_connected__: self.__connected_agents__.get(identity) is an agent
CheckConnected(identity) == identity \in DOMAIN connected_agents

\* __get_lifecycle_members__: the check of the connection first, then the
\* lookup of the lifecycle dict; each raises a ValueError of its own
GetLifecycleMembers(identity) ==
    IF ~CheckConnected(identity)
    THEN [outcome |-> "ValueError", raised_by |-> "__check_connected__",
          members |-> EmptyDict]
    ELSE IF identity \notin DOMAIN lifecycle_methods
    THEN [outcome |-> "ValueError", raised_by |-> "__get_lifecycle_members__",
          members |-> EmptyDict]
    ELSE [outcome |-> "returned", raised_by |-> "",
          members |-> lifecycle_methods[identity]]

\* server.trigger_setup_event / trigger_start_event / trigger_stop_event
\* (identity, sender, **kwargs), the hook telling which of the three
TriggerLifecycle(identity, hook, sender, kwargs) ==
    /\ LET m == GetLifecycleMembers(identity)
           r == IF m.outcome = "returned"
                THEN ExecuteLifecycleMethod(identity, hook, m.members, sender, kwargs)
                ELSE LifecycleResult("ValueError", <<>>, NoResult)
       IN  /\ handler_calls' = handler_calls \o r.calls
           /\ last_result' = r.response
           /\ last_call' = Call(hook, 0, r.outcome, NoneNum)
           /\ trigger_log' = Append(trigger_log,
                  [identity |-> identity, hook |-> hook,
                   sender |-> sender, kwargs |-> kwargs,
                   outcome |-> r.outcome,
                   raised_by |-> IF m.outcome # "returned" THEN m.raised_by
                                 ELSE IF r.outcome = "returned" THEN ""
                                 ELSE IF r.outcome = "raised" THEN "handler"
                                 ELSE "__execute_lifecycle_method__"])
    /\ UNCHANGED <<pubsubVars, registryVars, schedVars, now, verify, instanceVars, interceptVars,
                   logVars, log_calls, greenlets>>

(***************************************************************************)
(* Logger.debug / info / warning / error of a logger given to              *)
(* connect_agent                                                           *)
(***************************************************************************)
LogMethods == {"debug", "info", "warning", "error", "critical"}
\* the methods add_agent_log replaces
PatchedMethods == {"debug", "info", "error", "warning"}

\* logging.DEBUG, INFO, WARNING, ERROR: the level each replacement is made for
LevelOf(method) ==
    CASE method = "debug" -> 10
      [] method = "info" -> 20
      [] method = "warning" -> 30
      [] method = "error" -> 40

LogMessage(level, message, args, kwargs) ==
    [level |-> level, message |-> message, args |-> args, kwargs |-> kwargs]

\* a replacement that records the message without its arguments
FnWrapperWithoutArgs(log, level, msg, args, kwargs) ==
    Append(log, LogMessage(level, msg, <<>>, {}))

\* fn_wrapper: the function add_agent_log puts in the place of a method
FnWrapper(log, level, msg, args, kwargs) ==
    Append(log, LogMessage(level, msg, args, kwargs))

\* logger.<method>(msg, *args, **kwargs) on one of the Logger objects: a
\* replaced method appends to the log of the ServerLogWrapper it was made
\* by, any other method goes to the logging module
LogCall(logger, method, msg, args, kwargs) ==
    /\ log_messages' =
           IF method \in PatchedMethods /\ logger_sink[logger] = "server_log"
           THEN FnWrapper(log_messages, LevelOf(method), msg, args, kwargs)
           ELSE log_messages
    /\ log_calls' = Append(log_calls, [logger |-> logger, method |-> method])
    /\ last_call' = Call("log", 0, "returned", NoneNum)
    /\ UNCHANGED <<pubsubVars, registryVars, schedVars, now, verify, instanceVars, interceptVars,
                   logger_sink, handler_calls, last_result, trigger_log, greenlets>>

(***************************************************************************)
(* ScheduledEvent, ScheduleWrapper and the scheduled-event registry.       *)
(***************************************************************************)
ScheduledEvent(event_type, callback, args, kwargs, period, cron_schedule, scheduled_time) ==
    [event_type |-> event_type, callback |-> callback, args |-> args,
     kwargs |-> kwargs, period |-> period, cron_schedule |-> cron_schedule,
     scheduled_time |-> scheduled_time, last_run |-> NoneNum, run_count |-> 0,
     cancelled |-> FALSE, greenlet |-> NoGreenlet]

\* registration in a list that all identities share
RegisterScheduledEventShared(sched, identity, event) ==
    [k \in (DOMAIN sched) \cup {identity} |->
        Append(DictGet(sched, k, <<>>), event)]

\* registration that enters the event twice
RegisterScheduledEventTwice(sched, identity, event) ==
    DictSet(sched, identity, Append(Append(DictGet(sched, identity, <<>>), event), event))

\* TestServer._register_scheduled_event
RegisterScheduledEvent(sched, identity, event) ==
    DictSet(sched, identity, Append(DictGet(sched, identity, <<>>), event))

\* a lookup under the argument as it was given
GetScheduledEventsByKeyOnly(sched, identity_or_agent) ==
    DictGet(sched, identity_or_agent, <<>>)

\* TestServer.get_scheduled_events: an Agent stands for its
\* core.identity; the list of an identity without one is a new empty list
GetScheduledEvents(sched, identity_or_agent) ==
    DictGet(sched,
            IF identity_or_agent \in Agents THEN IdentityOf(identity_or_agent)
            ELSE identity_or_agent,
            <<>>)

\* agent.core._schedule_wrapper of agent a is a ScheduleWrapper
HasScheduleWrapper(a) == Intercepted(a)

\* the common tail of ScheduleWrapper.periodic / cron / schedule: the new
\* event object is appended to the wrapper's list and registered on the
\* server under the wrapper's identity
ScheduleEvent(a, event) ==
    /\ HasScheduleWrapper(a)
    /\ LET w == ScheduleWrapperOf(a)
           e == Len(events) + 1
           w2 == [w EXCEPT !._events = Append(@, e)]
       IN  /\ events' = Append(events, event)
           /\ callback_calls' = Append(callback_calls, <<>>)
           /\ trigger_calls' = Append(trigger_calls, 0)
           /\ IF InRegistry(a)
              THEN /\ schedule_wrappers' =
                          [schedule_wrappers EXCEPT ![IdentityOf(a)] = w2]
                   /\ detached' = detached
              ELSE /\ detached' = [detached EXCEPT ![a].schedule = w2]
                   /\ schedule_wrappers' = schedule_wrappers
           /\ scheduled_events' = RegisterScheduledEvent(scheduled_events, w._identity, e)
           /\ last_call' = Call("schedule", e, "returned", NoneNum)
    /\ UNCHANGED <<pubsubVars, connected_agents, lifecycle_methods,
                   pubsub_wrappers, agent_log, wrapper_target, now, verify,
                   stale_pubsub, logVars, lifecycleVars, greenlets, interceptVars>>

\* agent.core.schedule.periodic(callback, period, *args, **kwargs)
Periodic(a, callback, period, args, kwargs) ==
    ScheduleEvent(a, ScheduledEvent("periodic", callback, args, kwargs,
                                    period, NoneStr, NoneNum))

\* agent.core.schedule.cron(callback, cron_schedule, *args, **kwargs)
Cron(a, callback, cron_schedule, args, kwargs) ==
    ScheduleEvent(a, ScheduledEvent("cron", callback, args, kwargs,
                                    NoneNum, cron_schedule, NoneNum))

\* agent.core.schedule.schedule(callback, scheduled_time, *args, **kwargs)
Schedule(a, callback, scheduled_time, args, kwargs) ==
    ScheduleEvent(a, ScheduledEvent("time", callback, args, kwargs,
                                    NoneNum, NoneStr, scheduled_time))

\* the greenlet would be killed by cancel_all: it is the one its event
\* refers to and it is still waiting to run (a Greenlet is truthy only
\* between its start and its end)
KilledByCancel(g, mine) ==
    /\ greenlets[g].event \in mine
    /\ events[greenlets[g].event].greenlet = g
    /\ greenlets[g].state = "spawned"

\* ScheduleWrapper.cancel_all: every event of the wrapper's own list is
\* cancelled and the greenlet it refers to is killed
CancelAll(a) ==
    /\ HasScheduleWrapper(a)
    /\ LET mine == Range(ScheduleWrapperOf(a)._events)
       IN  /\ events' = [e \in DOMAIN events |->
                           IF e \in mine THEN [events[e] EXCEPT !.cancelled = TRUE]
                           ELSE events[e]]
           /\ greenlets' = [g \in DOMAIN greenlets |->
                              IF KilledByCancel(g, mine)
                              THEN [greenlets[g] EXCEPT !.state = "killed"]
                              ELSE greenlets[g]]
    /\ last_call' = Returned
    /\ UNCHANGED <<pubsubVars, registryVars, scheduled_events, callback_calls,
                   trigger_calls, now, verify, instanceVars, interceptVars, logVars, lifecycleVars>>

\* server.get_scheduled_events(identity_or_agent), called by a test: the
\* list is returned and the server is left as it is
GetScheduledEventsCall(identity_or_agent) ==
    /\ last_result' = [kind |-> "events", of |-> identity_or_agent,
                       items |-> GetScheduledEvents(scheduled_events, identity_or_agent)]
    /\ last_call' = Call("get_scheduled_events", 0, "returned", NoneNum)
    /\ UNCHANGED <<pubsubVars, registryVars, schedVars, now, verify, instanceVars,
                   interceptVars, logVars, handler_calls, trigger_log, log_calls,
                   greenlets>>

(***************************************************************************)
(* TestServer.get_periodic_events / get_cron_events / get_time_events      *)
(***************************************************************************)
\* a filter that looks at the kind of the event only
GetEventsOfTypeCancelledToo(sched, heap, identity, event_type) ==
    SelectSeq(GetScheduledEvents(sched, identity),
              LAMBDA e : heap[e].event_type = event_type)

\* [e for e in events if e.event_type == <kind> and not e.cancelled]
GetEventsOfType(sched, heap, identity, event_type) ==
    SelectSeq(GetScheduledEvents(sched, identity),
              LAMBDA e : heap[e].event_type = event_type /\ ~heap[e].cancelled)

GetPeriodicEvents(sched, heap, identity) == GetEventsOfType(sched, heap, identity, "periodic")
GetCronEvents(sched, heap, identity) == GetEventsOfType(sched, heap, identity, "cron")
GetTimeEvents(sched, heap, identity) == GetEventsOfType(sched, heap, identity, "time")

EventList(items) == [kind |-> "list", items |-> items]

\* the name of the query for each kind of event
QueryOp(event_type) ==
    CASE event_type = "periodic" -> "get_periodic_events"
      [] event_type = "cron" -> "get_cron_events"
      [] event_type = "time" -> "get_time_events"

\* server.get_periodic_events(identity), get_cron_events, get_time_events
GetEvents(identity, event_type) ==
    /\ last_result' = EventList(
           CASE event_type = "periodic" -> GetPeriodicEvents(scheduled_events, events, identity)
             [] event_type = "cron" -> GetCronEvents(scheduled_events, events, identity)
             [] event_type = "time" -> GetTimeEvents(scheduled_events, events, identity))
    /\ last_call' = Call(QueryOp(event_type), 0, "returned", NoneNum)
    /\ UNCHANGED <<pubsubVars, registryVars, schedVars, now, verify, instanceVars, interceptVars,
                   logVars, handler_calls, trigger_log, log_calls, greenlets>>

(***************************************************************************)
(* TestServer.trigger_scheduled_event                                      *)
(***************************************************************************)
KwargsGet(kwargs, key, default) ==
    IF \E kv \in kwargs : kv[1] = key
    THEN (CHOOSE kv \in kwargs : kv[1] = key)[2]
    ELSE default

\* what the callable returns when it is called with (*args, **kwargs):
\* cb_mul(value=0, multiplier=2) returns value * multiplier
CallbackReturn(fn, args, kwargs) ==
    (IF Len(args) >= 1 THEN args[1] ELSE 0) * KwargsGet(kwargs, "multiplier", 2)

\* how trigger_scheduled_event ends and what it leaves behind: the event
\* afterwards, the callback invocations made, the outcome and the value
TriggerResult(ev, calls, outcome, value) ==
    [event |-> ev, calls |-> calls, outcome |-> outcome, value |-> value]

\* what the callback is invoked with and what it can see of the event
CallbackCall(ev, args, kwargs) ==
    [args |-> args, kwargs |-> kwargs, run_count_seen |-> ev.run_count,
     last_run_seen |-> ev.last_run]

\* the part after the cancelled check with the bookkeeping moved behind the
\* callback, where an exception skips it
RunEventCallbackFirst(ev, t) ==
    LET call == CallbackCall(ev, ev.args, ev.kwargs)
    IN  IF SchedCallbackRaises(ev.callback)
        THEN TriggerResult(ev, <<call>>, "raised", NoneNum)
        ELSE TriggerResult([ev EXCEPT !.last_run = t, !.run_count = @ + 1],
                           <<call>>, "returned",
                           CallbackReturn(ev.callback, call.args, call.kwargs))

\* the part after the cancelled check calling callback(*event.args) only
RunEventWithoutKwargs(ev, t) ==
    LET ev1 == [ev EXCEPT !.last_run = t, !.run_count = @ + 1]
        call == CallbackCall(ev1, ev1.args, KwargsEmpty)
    IN  IF SchedCallbackRaises(ev1.callback)
        THEN TriggerResult(ev1, <<call>>, "raised", NoneNum)
        ELSE TriggerResult(ev1, <<call>>, "returned",
                           CallbackReturn(ev1.callback, call.args, call.kwargs))

\* the bookkeeping is done first, but the callback is handed the event as
\* it was before the trigger
RunEventStaleView(ev, t) ==
    LET ev1 == [ev EXCEPT !.last_run = t, !.run_count = @ + 1]
        call == CallbackCall(ev, ev.args, ev.kwargs)
    IN  IF SchedCallbackRaises(ev.callback)
        THEN TriggerResult(ev1, <<call>>, "raised", NoneNum)
        ELSE TriggerResult(ev1, <<call>>, "returned",
                           CallbackReturn(ev.callback, call.args, call.kwargs))

\* a trigger that counts the run and leaves last_run alone
RunEventCountOnly(ev, t) ==
    LET ev1 == [ev EXCEPT !.run_count = @ + 1]
        call == CallbackCall(ev1, ev1.args, ev1.kwargs)
    IN  IF SchedCallbackRaises(ev1.callback)
        THEN TriggerResult(ev1, <<call>>, "raised", NoneNum)
        ELSE TriggerResult(ev1, <<call>>, "returned",
                           CallbackReturn(ev1.callback, call.args, call.kwargs))

\* a trigger that runs the event twice
RunEventTwice(ev, t) ==
    LET ev1 == [ev EXCEPT !.last_run = t, !.run_count = @ + 2]
        call == CallbackCall(ev1, ev1.args, ev1.kwargs)
    IN  IF SchedCallbackRaises(ev1.callback)
        THEN TriggerResult(ev1, <<call, call>>, "raised", NoneNum)
        ELSE TriggerResult(ev1, <<call, call>>, "returned",
                           CallbackReturn(ev1.callback, call.args, call.kwargs))

\* trigger_scheduled_event after the cancelled check, at time t: last_run
\* and run_count are updated, then callback(*event.args, **event.kwargs)
\* runs; its value is returned, its exception is re-raised
RunEvent(ev, t) ==
    LET ev1 == [ev EXCEPT !.last_run = t, !.run_count = @ + 1]
        call == CallbackCall(ev1, ev1.args, ev1.kwargs)
    IN  IF SchedCallbackRaises(ev1.callback)
        THEN TriggerResult(ev1, <<call>>, "raised", NoneNum)
        ELSE TriggerResult(ev1, <<call>>, "returned",
                           CallbackReturn(ev1.callback, call.args, call.kwargs))

\* trigger_scheduled_event without its cancelled check
TriggerScheduledEventUnchecked(ev, t) == RunEvent(ev, t)

\* a trigger that puts a cancelled event back to work
TriggerScheduledEventReviving(ev, t) == RunEvent([ev EXCEPT !.cancelled = FALSE], t)

\* a trigger that looks at the cancelled flag only after it has called
\* the callback
TriggerScheduledEventLateCheck(ev, t) ==
    IF ev.cancelled
    THEN TriggerResult(ev, <<CallbackCall(ev, ev.args, ev.kwargs)>>, "ValueError", NoneNum)
    ELSE RunEvent(ev, t)

\* TestServer.trigger_scheduled_event on the event object at time t
TriggerScheduledEvent(ev, t) ==
    IF ev.cancelled
    THEN TriggerResult(ev, <<>>, "ValueError", NoneNum)
    ELSE RunEvent(ev, t)

\* server.trigger_scheduled_event(event)
Trigger(e) ==
    /\ e \in DOMAIN events
    /\ LET r == TriggerScheduledEvent(events[e], now)
       IN  /\ events' = [events EXCEPT ![e] = r.event]
           /\ callback_calls' = [callback_calls EXCEPT ![e] = @ \o r.calls]
           /\ last_call' = Call("trigger", e, r.outcome, r.value)
    /\ trigger_calls' =
           [trigger_calls EXCEPT ![e] = IF events[e].cancelled THEN @ ELSE @ + 1]
    /\ UNCHANGED <<pubsubVars, registryVars, scheduled_events, now, verify, auxVars>>

\* a greenlet spawned to run run_with_delay for event e
Greenlet(e, run_at) ==
    [event |-> e, run_at |-> run_at, state |-> "spawned", outcome |-> NoneStr]

\* server.run_scheduled_event_with_greenlet(event, delay): the greenlet is
\* spawned and stored on the event; nothing of it has run when the call
\* returns
RunWithGreenlet(e, delay) ==
    /\ e \in DOMAIN events
    /\ greenlets' = Append(greenlets, Greenlet(e, now + delay))
    /\ events' = [events EXCEPT ![e].greenlet = Len(greenlets) + 1]
    /\ last_call' = Call("run_with_greenlet", e, "returned", NoneNum)
    /\ UNCHANGED <<pubsubVars, registryVars, scheduled_events, callback_calls,
                   trigger_calls, now, verify, instanceVars, interceptVars, logVars, lifecycleVars>>

\* the hub runs run_with_delay of greenlet g once its delay is over: it
\* calls trigger_scheduled_event, whose exception ends the greenlet
GreenletRun(g) ==
    /\ g \in DOMAIN greenlets
    /\ greenlets[g].state = "spawned"
    /\ now >= greenlets[g].run_at
    /\ LET e == greenlets[g].event
           r == TriggerScheduledEvent(events[e], now)
       IN  /\ events' = [events EXCEPT ![e] = r.event]
           /\ callback_calls' = [callback_calls EXCEPT ![e] = @ \o r.calls]
           /\ trigger_calls' =
                  [trigger_calls EXCEPT ![e] = IF events[e].cancelled THEN @ ELSE @ + 1]
           /\ greenlets' = [greenlets EXCEPT ![g].state = "done",
                                             ![g].outcome = r.outcome]
    /\ UNCHANGED <<pubsubVars, registryVars, scheduled_events, now, verify, last_call,
                   instanceVars, interceptVars, logVars, lifecycleVars>>

\* greenlet.join() on the handle of greenlet g: the caller is resumed once
\* the greenlet is dead, that is has ended or has been killed
Join(g) ==
    /\ g \in DOMAIN greenlets
    /\ greenlets[g].state \in {"done", "killed"}
    /\ last_call' = Call("join", g, "returned", NoneNum)
    /\ UNCHANGED <<pubsubVars, registryVars, schedVars, now, verify, auxVars>>

\* time passes, up to the end of the modelled period
Tick(limit) ==
    /\ now < limit
    /\ now' = now + 1
    /\ UNCHANGED <<pubsubVars, registryVars, schedVars, verify, last_call, auxVars>>

(***************************************************************************)
(* TestServer.verify_event_scheduled                                       *)
(***************************************************************************)
\* gevent.sleep(0.1) between two polls; one unit of the clock is 0.1 s
PollInterval == 1

\* truth value of an optional string argument
Truthy(str) == str # NoneStr /\ str # ""

\* the for loop body without its check of event.cancelled
EventPassesFiltersCancelledToo(ev, event_type, period, cron_schedule) ==
    /\ ~(Truthy(event_type) /\ ev.event_type # event_type)
    /\ ~(period # NoneNum /\ ev.period # period)
    /\ ~(Truthy(cron_schedule) /\ ev.cron_schedule # cron_schedule)

\* the body of the for loop: the event is not skipped by any `continue`
EventPassesFilters(ev, event_type, period, cron_schedule) ==
    /\ ~ev.cancelled
    /\ ~(Truthy(event_type) /\ ev.event_type # event_type)
    /\ ~(period # NoneNum /\ ev.period # period)
    /\ ~(Truthy(cron_schedule) /\ ev.cron_schedule # cron_schedule)

\* one pass of the for loop over get_scheduled_events(identity)
ScanFindsEvent(sched, heap, identity, event_type, period, cron_schedule) ==
    LET evs == GetScheduledEvents(sched, identity)
    IN  \E i \in DOMAIN evs :
            EventPassesFilters(heap[evs[i]], event_type, period, cron_schedule)

\* the while loop from its test up to the next gevent.sleep or return,
\* entered at time t
VerifyLoop(v, sched, heap, t) ==
    IF t - v.start_time < v.timeout
    THEN IF ScanFindsEvent(sched, heap, v.identity, v.event_type, v.period,
                           v.cron_schedule)
         THEN [v EXCEPT !.pc = "done", !.result = "True", !.end_time = t]
         ELSE [v EXCEPT !.pc = "sleeping", !.wake_at = t + PollInterval]
    ELSE [v EXCEPT !.pc = "done", !.result = "False", !.end_time = t]

\* server.verify_event_scheduled(identity, event_type, period, cron_schedule,
\* timeout): start_time is read and the loop is entered; the two successive
\* clock readings are the same instant.
VerifyCall(identity, event_type, period, cron_schedule, timeout) ==
    /\ verify.pc # "sleeping"
    /\ LET v == [pc |-> "loop", identity |-> identity, event_type |-> event_type,
                 period |-> period, cron_schedule |-> cron_schedule,
                 timeout |-> timeout, start_time |-> now, wake_at |-> 0,
                 end_time |-> 0, sleeps |-> 0,
                 match_at_call |->
                     ScanFindsEvent(scheduled_events, events, identity,
                                    event_type, period, cron_schedule),
                 result |-> NoneStr]
       IN  verify' = VerifyLoop(v, scheduled_events, events, now)
    /\ UNCHANGED <<pubsubVars, registryVars, schedVars, now, last_call, auxVars>>

\* gevent.sleep(0.1) returns and the loop is entered again
VerifyWake ==
    /\ verify.pc = "sleeping"
    /\ now >= verify.wake_at
    /\ verify' = VerifyLoop([verify EXCEPT !.sleeps = @ + 1],
                            scheduled_events, events, now)
    /\ UNCHANGED <<pubsubVars, registryVars, schedVars, now, last_call, auxVars>>

(***************************************************************************)
(* TestServer(): __new__ rebinds the class attributes every instance reads, *)
(* __init__ gives the new instance its own _subscribers.                    *)
(***************************************************************************)
\* the wrappers that agents hold once every registry has been rebound
DetachAll ==
    LET registered == {a \in Agents : InRegistry(a)}
    IN  [a \in (DOMAIN detached) \cup registered |->
            IF a \in registered
            THEN [pubsub |-> pubsub_wrappers[IdentityOf(a)],
                  schedule |-> schedule_wrappers[IdentityOf(a)]]
            ELSE detached[a]]

NewServer ==
    /\ server_subscribers' = Append(server_subscribers, <<>>)
    /\ connected_agents' = EmptyDict
    /\ lifecycle_methods' = EmptyDict
    /\ pubsub_wrappers' = EmptyDict
    /\ schedule_wrappers' = EmptyDict
    /\ scheduled_events' = EmptyDict
    \* a new MemoryPubSub; PubSubWrapper.__wrapper__ keeps the one it has
    /\ subscribers' = <<>>
    /\ published_messages' = <<>>
    /\ IF wrapper_target = "server_pubsub"
       THEN /\ wrapper_target' = "earlier_pubsub"
            /\ stale_pubsub' = [subscribers |-> subscribers,
                                published_messages |-> published_messages]
       ELSE UNCHANGED <<wrapper_target, stale_pubsub>>
    \* a new ServerLogWrapper; patched loggers keep appending to the old one
    /\ agent_log' = EmptyDict
    /\ log_messages' = <<>>
    /\ logger_sink' = [l \in DOMAIN logger_sink |->
                          IF logger_sink[l] = "server_log" THEN "earlier_log"
                          ELSE logger_sink[l]]
    /\ detached' = DetachAll
    /\ last_delivery' = NoDelivery
    /\ publish_calls' = 0
    /\ subscribe_requests' = <<>>
    /\ last_call' = Call("TestServer", 0, "returned", NoneNum)
    /\ UNCHANGED <<events, callback_calls, trigger_calls, now, verify,
                   lifecycleVars, greenlets, interceptVars>>

(***************************************************************************)
(* Specifications.                                                         *)
(***************************************************************************)
ServerCallbacks == {NoCallback} \cup Callbacks

\* the message bus: subscriptions and publications, by the server and by a
\* connected agent
NextPubSub ==
    \/ \E a \in {"A1", "A3"} : ConnectAgent(1, a, NoneStr)
    \/ /\ Len(subscribers) < MaxSubs
       /\ \E p \in Patterns, cb \in ServerCallbacks : ServerSubscribe(1, p, cb)
    \/ /\ publish_calls < MaxPublish
       /\ \E t \in Topics : ServerPublish(t, HeadersNone, "m1", DefaultBus)
    \/ /\ Len(subscribers) < MaxSubs
       /\ \E a \in {"A1"}, p \in Patterns : AgentSubscribe(a, PubSubPeer, p, "cb_ok")
    \/ /\ publish_calls < MaxPublish
       /\ \E a \in {"A1"}, t \in Topics : AgentPublish(a, t, HeadersNone, "m1", "b1")

SpecPubSub == Init /\ [][NextPubSub]_vars

\* the stored call arguments the scheduler is exercised with
StoredArguments ==
    {[args |-> ArgsEmpty, kwargs |-> KwargsEmpty],
     [args |-> ArgsTen, kwargs |-> KwargsMul3]}

\* the scheduler: an agent schedules periodic events, which are triggered
\* and cancelled while time passes
NextSched ==
    \/ ConnectAgent(1, "A1", NoneStr)
    \/ /\ Len(events) < MaxSchedEvents
       /\ \E cb \in SchedCallbacks, sa \in StoredArguments :
              Periodic("A1", cb, 5, sa.args, sa.kwargs)
    \/ \E e \in DOMAIN events :
           /\ events[e].cancelled \/ events[e].run_count < MaxRuns
           /\ Trigger(e)
    \/ CancelAll("A1")
    \/ Tick(MaxSchedTime)

SpecSched == Init /\ [][NextSched]_vars

\* the filters verify_event_scheduled is called with: event_type, period
\* and cron_schedule, each of them optional
VerifyFilters ==
    {<<NoneStr, NoneNum, NoneStr>>,
     <<"periodic", 5, NoneStr>>,
     <<"cron", NoneNum, "0 * * * *">>,
     <<NoneStr, 10, NoneStr>>}

\* verify_event_scheduled polls the events an agent schedules and cancels
\* while time passes
NextVerify ==
    \/ ConnectAgent(1, "A1", NoneStr)
    \/ /\ Len(events) < MaxEvents
       /\ \E period \in Periods :
              Periodic("A1", "cb_mul", period, ArgsEmpty, KwargsEmpty)
    \/ /\ Len(events) < MaxEvents
       /\ Cron("A1", "cb_mul", "0 * * * *", ArgsEmpty, KwargsEmpty)
    \/ CancelAll("A1")
    \/ \E f \in VerifyFilters, timeout \in 0..MaxTimeout :
           /\ now + timeout <= MaxTime
           /\ VerifyCall("agent1", f[1], f[2], f[3], timeout)
    \/ VerifyWake
    \/ Tick(MaxTime)

SpecVerify == Init /\ [][NextVerify]_vars

\* the gevent hub resumes a sleeping greenlet once its timer has expired,
\* and time does not stand still
SpecVerifyFair ==
    /\ Init
    /\ [][NextVerify]_vars
    /\ WF_vars(VerifyWake)
    /\ WF_vars(Tick(MaxTime))

\* the registry of scheduled events: agents, two of them carrying the same
\* identity, connect, schedule events of every kind and cancel them
NextRegistry ==
    \/ \E a \in Agents : ConnectAgent(1, a, NoneStr)
    \/ /\ Len(events) < MaxEvents
       /\ \E a \in Agents : Periodic(a, "cb_mul", 5, ArgsEmpty, KwargsEmpty)
    \/ /\ Len(events) < MaxEvents
       /\ \E a \in Agents : Cron(a, "cb_mul", "0 * * * *", ArgsEmpty, KwargsEmpty)
    \/ /\ Len(events) < MaxEvents
       /\ \E a \in Agents, t \in ScheduledTimes :
              Schedule(a, "cb_mul", t, ArgsEmpty, KwargsEmpty)
    \/ \E a \in Agents : CancelAll(a)

SpecRegistry == Init /\ [][NextRegistry]_vars

\* agents on the bus: two agents connect, A2 subscribes, naming a peer, and
\* so does the server; the server and A1 publish with and without headers
NextAgentPubSub ==
    \/ \E a \in {"A1", "A2"} : ConnectAgent(1, a, NoneStr)
    \/ /\ Len(subscribers) < MaxSubs
       /\ \E peer \in Peers, p \in Patterns : AgentSubscribe("A2", peer, p, "cb_ok")
    \/ /\ Len(subscribers) < MaxSubs
       /\ ServerSubscribe(1, P_d_any, "cb_ok")
    \/ /\ publish_calls < MaxPublish
       /\ \E t \in {T_dca, T_dcsa} : ServerPublish(t, HeadersNone, "m1", DefaultBus)
    \/ /\ publish_calls < MaxPublish
       /\ \E h \in HeadersSet : AgentPublish("A1", T_dca, h, "m1", "b1")

SpecAgentPubSub == Init /\ [][NextAgentPubSub]_vars

\* the router on its own: subscriptions are made, reset and removed while
\* messages are published
NextRouter ==
    \/ /\ Len(subscribers) < MaxSubs
       /\ \E p \in Patterns : ServerSubscribe(1, p, "cb_ok")
    \/ /\ publish_calls < MaxPublish
       /\ \E t \in {T_dca, T_dcsa} : ServerPublish(t, HeadersNone, "m1", DefaultBus)
    \/ \E i \in DOMAIN subscribers : ResetReceivedMessages(i)
    \/ \E i \in DOMAIN subscribers : Unsubscribe(i)
    \/ ClearAll

SpecRouter == Init /\ [][NextRouter]_vars

\* interception: agents connect, their pubsub entry points are intercepted
\* before or after, and the interceptors are restored, some more than once
NextIntercept ==
    \/ \E a \in Agents : ConnectAgent(1, a, NoneStr)
    \/ /\ Len(interceptors) < MaxInterceptors
       /\ \E a \in Agents : InterceptAgentPubsub(a)
    \/ \E i \in DOMAIN interceptors :
           /\ interceptors[i].restore_calls < MaxRestores
           /\ Restore(i)

SpecIntercept == Init /\ [][NextIntercept]_vars

\* the registry of scheduled events and the queries on it, by kind
NextQueries ==
    \/ NextRegistry
    \/ \E id \in Identities, event_type \in EventTypes : GetEvents(id, event_type)

SpecQueries == Init /\ [][NextQueries]_vars

\* every operation of the harness that touches scheduled events: two agents
\* connect, A1 schedules events of every kind and cancels them, the server
\* triggers them directly and in greenlets and polls for them
NextCancel ==
    \/ \E a \in {"A1", "A2"} : ConnectAgent(1, a, NoneStr)
    \/ /\ Len(events) < MaxEvents
       /\ Periodic("A1", "cb_mul", 5, ArgsEmpty, KwargsEmpty)
    \/ /\ Len(events) < MaxEvents
       /\ Cron("A1", "cb_mul", "0 * * * *", ArgsEmpty, KwargsEmpty)
    \/ /\ Len(events) < MaxEvents
       /\ \E t \in ScheduledTimes : Schedule("A1", "cb_mul", t, ArgsEmpty, KwargsEmpty)
    \/ \E e \in DOMAIN events :
           /\ events[e].cancelled \/ events[e].run_count < MaxRuns
           /\ Trigger(e)
    \/ /\ Len(greenlets) < MaxGreenlets
       /\ \E e \in DOMAIN events, delay \in 0..MaxSchedTime : RunWithGreenlet(e, delay)
    \/ \E g \in DOMAIN greenlets : GreenletRun(g)
    \/ \E timeout \in 0..MaxSchedTime :
           /\ now + timeout <= MaxSchedTime
           /\ VerifyCall("agent1", "periodic", NoneNum, NoneStr, timeout)
    \/ VerifyWake
    \/ CancelAll("A1")
    \/ Tick(MaxSchedTime)

SpecCancel == Init /\ [][NextCancel]_vars

\* what is logged
LogTexts == {"Hello World"}

\* logging: agents connect, each with a logger of its own or with none, and
\* the loggers are called before and after
NextLogging ==
    \/ \E a \in Agents, logger \in Loggers : ConnectAgent(1, a, logger)
    \/ /\ Len(log_calls) < MaxLogs
       /\ \E l \in LoggerObjects, method \in LogMethods, msg \in LogTexts,
             args \in {ArgsEmpty, ArgsTen} :
              LogCall(l, method, msg, args, KwargsEmpty)

SpecLogging == Init /\ [][NextLogging]_vars

\* lifecycle events: agents connect with or without a logger of their own
\* and the server triggers setup, start and stop on either identity
NextLifecycle ==
    \/ \E a \in Agents, logger \in Loggers : ConnectAgent(1, a, logger)
    \/ /\ Len(trigger_log) < MaxTriggers
       /\ \E id \in Identities, hook \in Hooks, sender \in Senders, kwargs \in KwargsSet :
              TriggerLifecycle(id, hook, sender, kwargs)

SpecLifecycle == Init /\ [][NextLifecycle]_vars

\* the TestServer instance constructed last
Newest == Len(server_subscribers)

\* several TestServer instances in one process, each used until the next
\* one is constructed: agents connect to it, A1 publishes and schedules, A2
\* and the server subscribe, the server publishes
NextServers ==
    \/ /\ Len(server_subscribers) < MaxServers
       /\ NewServer
    \/ \E a \in {"A1", "A2"} : ConnectAgent(Newest, a, NoneStr)
    \/ /\ Len(subscribers) < MaxSubs
       /\ ServerSubscribe(Newest, P_d_any, "cb_ok")
    \/ /\ publish_calls < MaxPublish
       /\ ServerPublish(T_dca, HeadersNone, "m1", DefaultBus)
    \/ /\ Len(subscribers) < MaxSubs
       /\ AgentSubscribe("A2", PubSubPeer, P_d_any, "cb_ok")
    \/ /\ publish_calls < MaxPublish
       /\ AgentPublish("A1", T_dca, HeadersNone, "m1", "b1")
    \/ /\ Len(events) < MaxSchedEvents
       /\ Periodic("A1", "cb_mul", 5, ArgsEmpty, KwargsEmpty)

SpecServers == Init /\ [][NextServers]_vars

(***************************************************************************)
(* Properties of interception.                                             *)
(***************************************************************************)
\* C21: restoring an agent's intercepted pubsub entry points is idempotent:
\* no restore ends in an error, the first restore of an interceptor gives
\* the agent the entry points it had when the interceptor was installed,
\* and a further restore changes nothing.
C21_RestoreIsIdempotent ==
    /\ [][\A a \in Agents :
             InterceptAgentPubsub(a) =>
                 interceptors'[Len(interceptors')].original = entry_points[a]]_vars
    /\ [][\A i \in DOMAIN interceptors :
             Restore(i) =>
                 /\ last_call'.outcome = "returned"
                 /\ IF interceptors[i].restore_calls = 0
                    THEN entry_points'[interceptors[i].agent] = interceptors[i].original
                    ELSE entry_points' = entry_points
                 /\ \A a \in Agents \ {interceptors[i].agent} :
                        entry_points'[a] = entry_points[a]]_vars

\* an agent was connected, then intercepted, and its interceptor was
\* restored twice: the agent has the entry points of its PubSubWrapper
C21_Witness ==
    \E i \in DOMAIN interceptors :
        /\ interceptors[i].restore_calls = 2
        /\ interceptors[i].original.kind = "PubSubWrapper"
        /\ entry_points[interceptors[i].agent] = interceptors[i].original
        /\ last_call.op = "restore"

(***************************************************************************)
(* Properties of cancellation.                                             *)
(***************************************************************************)
\* C16: cancellation is one-way: no step of the harness (periodic, cron,
\* schedule, trigger_scheduled_event, run_scheduled_event_with_greenlet and
\* the greenlet it spawns, verify_event_scheduled, cancel_all,
\* connect_agent) takes an event whose cancelled flag is true to a state
\* where the flag is false.
C16_CancellationIsOneWay ==
    [][\A e \in DOMAIN events :
          events[e].cancelled => (e \in DOMAIN events' /\ events'[e].cancelled)]_vars

\* a cancelled event was triggered in a greenlet, which failed on it, and
\* an event scheduled after the cancellation is active
C16_Witness ==
    /\ Len(events) = 2
    /\ events[1].cancelled
    /\ ~events[2].cancelled
    /\ \E g \in DOMAIN greenlets :
           /\ greenlets[g].event = 1
           /\ greenlets[g].state = "done"
           /\ greenlets[g].outcome = "ValueError"

\* the position of x in a sequence without repetitions
IndexOf(seq, x) == CHOOSE i \in DOMAIN seq : seq[i] = x

\* the list holds exactly the active events of the kind among owned, each
\* once, in the order owned has them
ActiveOfKindInOrder(items, owned, heap, event_type) ==
    /\ \A e \in Range(items) :
           e \in Range(owned) /\ heap[e].event_type = event_type /\ ~heap[e].cancelled
    /\ \A e \in Range(owned) :
           (heap[e].event_type = event_type /\ ~heap[e].cancelled) => e \in Range(items)
    /\ \A i, j \in DOMAIN items :
           i < j => IndexOf(owned, items[i]) < IndexOf(owned, items[j])

\* C17: get_periodic_events, get_cron_events and get_time_events return
\* exactly the owner's events of the kind asked for whose cancelled flag is
\* false, in registration order: no event of another kind and no cancelled
\* event is in the list, and every active event of the kind is.
C17_QueriesReturnActiveOfKind ==
    [][\A id \in Identities, event_type \in EventTypes :
          GetEvents(id, event_type) =>
              /\ last_result'.kind = "list"
              /\ ActiveOfKindInOrder(last_result'.items,
                                     IF id \in DOMAIN scheduled_events
                                     THEN scheduled_events[id] ELSE <<>>,
                                     events, event_type)]_vars

\* agent1 owns a cancelled periodic event and an active one registered
\* after it; get_periodic_events returned the active one alone
C17_Witness ==
    /\ last_call.op = "get_periodic_events"
    /\ last_result.kind = "list"
    /\ last_result.items = <<2>>
    /\ "agent1" \in DOMAIN scheduled_events
    /\ scheduled_events["agent1"] = <<1, 2>>
    /\ events[1].event_type = "periodic" /\ events[1].cancelled
    /\ events[2].event_type = "periodic" /\ ~events[2].cancelled

(***************************************************************************)
(* Properties of the server log.                                           *)
(***************************************************************************)
\* some connected agent was connected with this Logger object
LoggerConnected(l) == \E id \in DOMAIN agent_log : agent_log[id] = l

\* C20: after connect_agent(agent, logger), every debug, info, warning or
\* error call on that logger appends exactly one record {level, message,
\* args, kwargs}, with the level of the method called, to the server log;
\* the server log only grows at its end, so it is ordered by arrival over
\* the loggers of all connected agents.
C20_LoggerCallsAppendToServerLog ==
    /\ [][\A l \in LoggerObjects, method \in PatchedMethods, msg \in LogTexts,
             args \in {ArgsEmpty, ArgsTen} :
              (LoggerConnected(l) /\ LogCall(l, method, msg, args, KwargsEmpty)) =>
                  log_messages' = Append(log_messages,
                      [level |-> LevelOf(method), message |-> msg,
                       args |-> args, kwargs |-> KwargsEmpty])]_vars
    /\ [][/\ Len(log_messages') >= Len(log_messages)
          /\ SubSeq(log_messages', 1, Len(log_messages)) = log_messages]_vars

\* two agents are connected with different loggers; a debug call on the
\* one and then an error call with an argument on the other are in the log
\* in that order
C20_Witness ==
    /\ "agent1" \in DOMAIN agent_log /\ "agent2" \in DOMAIN agent_log
    /\ agent_log["agent1"] # agent_log["agent2"]
    /\ Len(log_calls) = 2 /\ Len(log_messages) = 2
    /\ log_calls[1].logger = agent_log["agent1"] /\ log_calls[1].method = "debug"
    /\ log_calls[2].logger = agent_log["agent2"] /\ log_calls[2].method = "error"
    /\ log_messages[1].level = 10
    /\ log_messages[2].level = 40 /\ log_messages[2].args = <<10>>

(***************************************************************************)
(* Properties of the lifecycle triggers.                                   *)
(***************************************************************************)
\* the identity is connected and its class declares a handler for the hook
Declares(id, hook) ==
    /\ id \in DOMAIN connected_agents
    /\ id \in DOMAIN lifecycle_methods
    /\ hook \in DOMAIN lifecycle_methods[id]

\* C14: triggering setup, start or stop for a connected agent whose class
\* declares no handler for that hook ends in an error, runs no handler and
\* changes nothing the server keeps about the agent; a trigger of a hook
\* the agent does declare succeeds and runs one handler, whatever
\* triggers failed before it.
C14_UndeclaredHookFails ==
    [][\A id \in Identities, hook \in Hooks, sender \in Senders, kwargs \in KwargsSet :
          (id \in DOMAIN connected_agents /\ TriggerLifecycle(id, hook, sender, kwargs)) =>
              IF Declares(id, hook)
              THEN /\ last_call'.outcome = "returned"
                   /\ Len(handler_calls') = Len(handler_calls) + 1
              ELSE /\ last_call'.outcome = "ValueError"
                   /\ handler_calls' = handler_calls
                   /\ lifecycle_methods' = lifecycle_methods
                   /\ connected_agents' = connected_agents]_vars

\* an undeclared hook failed for agent1 and a declared one succeeded after it
C14_Witness ==
    \E j, k \in DOMAIN trigger_log :
        /\ j < k
        /\ trigger_log[j].identity = "agent1" /\ trigger_log[j].outcome = "ValueError"
        /\ trigger_log[k].identity = "agent1" /\ trigger_log[k].outcome = "returned"
        /\ "agent1" \in DOMAIN connected_agents
        /\ Len(handler_calls) = 1

\* a step that is a trigger of a hook the connected identity declares
SuccessfulTrigger(id, hook, sender, kwargs) ==
    /\ Declares(id, hook)
    /\ TriggerLifecycle(id, hook, sender, kwargs)

Invoked(calls, id) == \E k \in DOMAIN calls : calls[k].sub = id

\* a step that is one publish call
PublishStep == publish_calls' = publish_calls + 1

\* C1: a publish invokes the callback of every subscription whose pattern
\* matches the published topic and of no other subscription; the pattern
\* d/[^/]+/a receives d/c/a and neither o/t nor d/c/s/a.
C1_PublishInvokesExactlyMatching ==
    [][PublishStep =>
        \A i \in DOMAIN subscribe_requests :
            LET req == subscribe_requests[i]
                topic == last_delivery'.topic
                invoked == Invoked(last_delivery'.calls, subscribers[i].id)
            IN  req.callback # NoCallback =>
                    /\ invoked <=> Matches(req.prefix, topic)
                    /\ req.prefix = P_d_seg_a => (invoked <=> topic = T_dca)
                    /\ req.prefix = P_d_any => (invoked <=> topic \in {T_dca, T_dcsa})]_vars

\* a publish of d/c/s/a that reached a d/.* subscription and skipped a
\* d/[^/]+/a subscription
C1_Witness ==
    /\ last_delivery.topic = T_dcsa
    /\ \E i, j \in DOMAIN subscribe_requests :
           /\ subscribe_requests[i].prefix = P_d_seg_a
           /\ subscribe_requests[i].callback # NoCallback
           /\ ~Invoked(last_delivery.calls, subscribers[i].id)
           /\ subscribe_requests[j].prefix = P_d_any
           /\ Invoked(last_delivery.calls, subscribers[j].id)

\* C2: the history holds exactly one entry per publish call made, whatever
\* the number of subscriptions that matched.
C2_HistoryCountsPublishes == Len(published_messages) = publish_calls

\* two publishes, one received by two subscriptions and one by none
C2_Witness ==
    /\ publish_calls >= 2
    /\ \E m \in DOMAIN published_messages :
           \A i \in DOMAIN subscribers :
               \A k \in DOMAIN subscribers[i].received :
                   subscribers[i].received[k].sequence # published_messages[m].sequence
    /\ \E m \in DOMAIN published_messages :
           \E i, j \in DOMAIN subscribers :
               /\ i # j
               /\ \E k \in DOMAIN subscribers[i].received :
                      subscribers[i].received[k] = published_messages[m]
               /\ \E k \in DOMAIN subscribers[j].received :
                      subscribers[j].received[k] = published_messages[m]

\* creation order of the subscriber with this id
CreatedOrder(id) == CHOOSE i \in DOMAIN subscribers : subscribers[i].id = id

\* C3: within one publish the callbacks run in the order in which their
\* subscriptions were registered.
C3_DeliveryInRegistrationOrder ==
    [][PublishStep =>
        LET calls == last_delivery'.calls
        IN  \A k, l \in DOMAIN calls :
                k < l => CreatedOrder(calls[k].sub) < CreatedOrder(calls[l].sub)]_vars

\* a publish that invoked at least two callbacks
C3_Witness == Len(last_delivery.calls) >= 2

\* C4: when a callback raises during a publish, every other matching
\* subscription still gets its callback invoked and the message in its view.
C4_RaisingCallbackDoesNotStopDelivery ==
    [][(PublishStep /\ \E k \in DOMAIN last_delivery'.calls :
                          last_delivery'.calls[k].outcome = "raised") =>
        \A i \in DOMAIN subscribe_requests :
            Matches(subscribe_requests[i].prefix, last_delivery'.topic) =>
                /\ subscribe_requests[i].callback # NoCallback =>
                       Invoked(last_delivery'.calls, subscribers[i].id)
                /\ Len(subscribers'[i].received) = Len(subscribers[i].received) + 1]_vars

\* a publish in which the first callback raised and a callback registered
\* after it ran normally
C4_Witness ==
    \E k, l \in DOMAIN last_delivery.calls :
        /\ k < l
        /\ last_delivery.calls[k].outcome = "raised"
        /\ last_delivery.calls[l].outcome = "ok"

(***************************************************************************)
(* Properties of the scheduler.                                            *)
(***************************************************************************)
\* a step that is one trigger_scheduled_event call on event e
TriggerStep(e) ==
    /\ last_call'.op = "trigger"
    /\ last_call'.event = e
    /\ now' = now

\* C5: triggering a cancelled event fails with an error, invokes no
\* callback and leaves run_count and last_run as they were.
C5_CancelledTriggerFails ==
    [][\A e \in DOMAIN events :
          (TriggerStep(e) /\ events[e].cancelled) =>
              /\ last_call'.outcome = "ValueError"
              /\ callback_calls' = callback_calls
              /\ events'[e].run_count = events[e].run_count
              /\ events'[e].last_run = events[e].last_run]_vars

\* an event that ran, was cancelled and was then triggered in vain
C5_Witness ==
    /\ last_call.op = "trigger"
    /\ last_call.outcome = "ValueError"
    /\ events[last_call.event].cancelled
    /\ events[last_call.event].run_count >= 1

\* C6: after N triggers of a non-cancelled event its run_count is N and its
\* callback has run N times, each time with the stored args and kwargs; a
\* trigger returns what the callback returns (30 for cb_mul(10, multiplier=3)).
C6_RunCountCountsTriggers ==
    /\ \A e \in DOMAIN events :
           /\ events[e].run_count = trigger_calls[e]
           /\ Len(callback_calls[e]) = trigger_calls[e]
           /\ \A k \in DOMAIN callback_calls[e] :
                  /\ callback_calls[e][k].args = events[e].args
                  /\ callback_calls[e][k].kwargs = events[e].kwargs
    /\ (last_call.op = "trigger" /\ last_call.outcome = "returned") =>
           LET ev == events[last_call.event]
           IN  /\ last_call.value = CallbackReturn(ev.callback, ev.args, ev.kwargs)
               /\ (ev.args = ArgsTen /\ ev.kwargs = KwargsMul3) => last_call.value = 30

\* the second trigger of an event scheduled with (10, multiplier=3) returned
C6_Witness ==
    /\ last_call.op = "trigger"
    /\ last_call.outcome = "returned"
    /\ last_call.value = 30
    /\ trigger_calls[last_call.event] = 2

MeetsGivenFilters(ev, v) ==
    /\ ~ev.cancelled
    /\ v.event_type # NoneStr => ev.event_type = v.event_type
    /\ v.period # NoneNum => ev.period = v.period
    /\ v.cron_schedule # NoneStr => ev.cron_schedule = v.cron_schedule

\* C8: verify_event_scheduled returns True at once, without sleeping,
\* whenever a matching active event exists when it is called, whatever the
\* timeout.
C8_ExistingEventFoundAtOnce ==
    (verify.pc = "done" /\ verify.match_at_call) =>
        /\ verify.result = "True"
        /\ verify.sleeps = 0
        /\ verify.end_time = verify.start_time

\* a step in which verify_event_scheduled returns
VerifyReturnStep == verify'.pc = "done" /\ verify' # verify

\* C9: verify_event_scheduled terminates; it returns False only once the
\* timeout has elapsed, and True only when the owner has an active event
\* that meets every given filter.
C9_VerifyTerminatesAndIsSound ==
    /\ [][VerifyReturnStep =>
             /\ verify'.result = "False" =>
                    verify'.end_time - verify'.start_time >= verify'.timeout
             /\ verify'.result = "True" =>
                    \E e \in Range(GetScheduledEvents(scheduled_events', verify'.identity)) :
                        MeetsGivenFilters(events'[e], verify')]_vars
    /\ (verify.pc = "sleeping") ~> (verify.pc = "done")

\* a call that slept and returned False although the owner has a cancelled
\* event of the wanted kind and period and an active event of another period
C9_Witness ==
    /\ verify.pc = "done"
    /\ verify.result = "False"
    /\ verify.sleeps >= 1
    /\ verify.event_type = "periodic"
    /\ verify.period = 5
    /\ \E e1, e2 \in Range(GetScheduledEvents(scheduled_events, verify.identity)) :
           /\ events[e1].cancelled
           /\ events[e1].period = 5
           /\ ~events[e2].cancelled
           /\ events[e2].period = 10

(***************************************************************************)
(* Properties of the scheduled-event registry.                             *)
(***************************************************************************)
\* C10: the scheduled-event lists of two distinct identities share no
\* event, and an event scheduled through an agent's wrapper is in the list
\* of that agent's identity only.
C10_OwnersShareNoEvent ==
    /\ \A i, j \in DOMAIN scheduled_events :
           i # j => Range(scheduled_events[i]) \cap Range(scheduled_events[j]) = {}
    /\ \A i \in DOMAIN schedule_wrappers :
           \A e \in Range(schedule_wrappers[i]._events) :
               \A j \in Identities :
                   e \in Range(GetScheduledEvents(scheduled_events, j)) <=> j = i

\* two agents hold events scheduled with identical parameters
C10_Witness ==
    \E i, j \in DOMAIN scheduled_events :
        /\ i # j
        /\ \E e1 \in Range(scheduled_events[i]), e2 \in Range(scheduled_events[j]) :
               events[e1] = events[e2]

(***************************************************************************)
(* Properties of connect_agent.                                            *)
(***************************************************************************)
\* a step that is connect_agent(a, logger) for an identity already connected
DuplicateConnectStep ==
    \E s \in DOMAIN server_subscribers, a \in Agents, logger \in Loggers :
        /\ IdentityOf(a) \in DOMAIN connected_agents
        /\ ConnectAgent(s, a, logger)

\* C11: connect_agent with an identity that is already connected fails with
\* an error and leaves the agent, lifecycle handlers, pubsub wrapper and
\* schedule wrapper registered for the identity as they were; every
\* registered identity maps to one agent, the one that carries it.
C11_DuplicateIdentityRejected ==
    /\ [](\A id \in DOMAIN connected_agents :
             /\ IdentityOf(connected_agents[id]) = id
             /\ pubsub_wrappers[id].agent = connected_agents[id])
    /\ [][DuplicateConnectStep =>
             /\ last_call'.op = "connect_agent"
             /\ last_call'.outcome = "ValueError"
             /\ connected_agents' = connected_agents
             /\ lifecycle_methods' = lifecycle_methods
             /\ pubsub_wrappers' = pubsub_wrappers
             /\ schedule_wrappers' = schedule_wrappers
             /\ agent_log' = agent_log]_vars

\* A3, which carries the identity of A1, was refused while A1 had an event
\* scheduled
C11_Witness ==
    /\ last_call.op = "connect_agent"
    /\ last_call.outcome = "ValueError"
    /\ "agent1" \in DOMAIN connected_agents
    /\ connected_agents["agent1"] = "A1"
    /\ schedule_wrappers["agent1"]._events # <<>>

(***************************************************************************)
(* Properties of TestServer instances.                                     *)
(***************************************************************************)
\* the subscription received one more message, published on the topic
ReceivedOneMore(before, after, topic) ==
    /\ Len(after.received) = Len(before.received) + 1
    /\ after.received[Len(after.received)].topic = topic

\* C12: a message that an agent connected to the server publishes through
\* its intercepted publish is appended to the server's published-message
\* history and delivered to every matching subscription of the server's
\* router, whoever made it.
C12_AgentPublishReachesServerRouter ==
    [][\A a \in Agents, t \in Topics, h \in HeadersSet, m \in Messages, b \in Buses :
          (InRegistry(a) /\ AgentPublish(a, t, h, m, b)) =>
              /\ Len(published_messages') = Len(published_messages) + 1
              /\ published_messages'[Len(published_messages')].topic = t
              /\ published_messages'[Len(published_messages')].message = m
              /\ \A i \in DOMAIN subscribers :
                     Matches(subscribers[i].prefix, t) =>
                         ReceivedOneMore(subscribers[i], subscribers'[i], t)]_vars

\* the sender an agent's callback is to be told for a message with these
\* headers
ExpectedSender(headers) ==
    IF ~headers.none /\ (\E kv \in headers.items : kv[1] = "sender")
    THEN (CHOOSE kv \in headers.items : kv[1] = "sender")[2]
    ELSE "unknown"

\* the calls of one delivery made for the subscriber with this id
CallsOf(calls, id) == {k \in DOMAIN calls : calls[k].sub = id}

\* in a publish step, every subscription made through an agent's subscribe
\* has its callback invoked once with the agent-facing signature if it
\* matches and not at all if it does not; the peer handed over is the
\* router's fixed name, or else the peer named at subscribe
VipDelivery(fixed_peer) ==
    PublishStep =>
        LET msg == published_messages'[Len(published_messages')]
            calls == last_delivery'.calls
        IN  /\ Len(published_messages') = Len(published_messages) + 1
            /\ msg.topic = last_delivery'.topic
            /\ \A i \in DOMAIN subscribers :
                   subscribers[i].callback.kind = "wrapper" =>
                       IF Matches(subscribers[i].prefix, msg.topic)
                       THEN /\ Cardinality(CallsOf(calls, subscribers[i].id)) = 1
                            /\ \A k \in CallsOf(calls, subscribers[i].id) :
                                   /\ calls[k].kind = "vip"
                                   /\ calls[k].fn = subscribers[i].callback.fn
                                   /\ calls[k].peer = IF fixed_peer THEN PubSubPeer
                                                      ELSE subscribers[i].callback.peer
                                   /\ calls[k].sender = ExpectedSender(msg.headers)
                                   /\ calls[k].topic = msg.topic
                                   /\ calls[k].message = msg.message
                       ELSE CallsOf(calls, subscribers[i].id) = {}

\* every subscription an agent's wrapper holds is a registration of the
\* router under the same pattern, whose callback wraps the agent's callable
AgentSubscriptionsRegistered ==
    \A id \in DOMAIN pubsub_wrappers :
        \A prefix \in DOMAIN pubsub_wrappers[id]._subscriptions :
            \A k \in DOMAIN pubsub_wrappers[id]._subscriptions[prefix] :
                LET sub == pubsub_wrappers[id]._subscriptions[prefix][k]
                IN  /\ sub.anysub_subscriber \in DOMAIN subscribers
                    /\ subscribers[sub.anysub_subscriber].prefix = prefix
                    /\ subscribers[sub.anysub_subscriber].callback.kind = "wrapper"
                    /\ subscribers[sub.anysub_subscriber].callback.fn = sub.callback

\* C18: a callback subscribed through a connected agent's subscribe is
\* invoked, for each matching publish, exactly once with (peer, sender,
\* bus, topic, headers, message): topic and message are those published,
\* sender is the 'sender' header, or 'unknown' when the headers are absent
\* or lack it, and peer is the peer the agent named when it subscribed.
C18_AgentCallbackSignature ==
    /\ []AgentSubscriptionsRegistered
    /\ [][VipDelivery(FALSE)]_vars

\* a message with a sender header reached a callback subscribed with
\* another peer than the router's, and one without headers had reached a
\* callback before
C18_Witness ==
    /\ Len(published_messages) = 2
    /\ published_messages[1].headers.none
    /\ published_messages[2].headers = HeadersSender
    /\ \E k \in DOMAIN last_delivery.calls :
           /\ last_delivery.calls[k].kind = "vip"
           /\ last_delivery.calls[k].peer = "other"
           /\ last_delivery.calls[k].sender = "pub"
    /\ \E i \in DOMAIN subscribers :
           /\ subscribers[i].callback.kind = "wrapper"
           /\ Len(subscribers[i].received) = 2

\* C18 as stated: the peer handed to the callback is a fixed value that
\* stands for the router
C18_PeerIsFixed == [][VipDelivery(TRUE)]_vars

\* C19: a publish made through a connected agent's publish is forwarded
\* to the router with the topic, headers, message and bus the agent passed:
\* the PublishedMessage recorded for it and every callback invoked for it
\* carry the bus given by the publisher.
C19_AgentPublishKeepsBus ==
    [][\A a \in Agents, t \in Topics, h \in HeadersSet, m \in Messages, b \in Buses :
          (InRegistry(a) /\ AgentPublish(a, t, h, m, b)) =>
              LET msg == published_messages'[Len(published_messages')]
              IN  /\ Len(published_messages') = Len(published_messages) + 1
                  /\ msg.topic = t /\ msg.headers = h /\ msg.message = m
                  /\ msg.bus = b
                  /\ \A k \in DOMAIN last_delivery'.calls :
                         last_delivery'.calls[k].bus = b]_vars

\* a step that constructs one more TestServer
NewServerStep == Len(server_subscribers') = Len(server_subscribers) + 1

\* C13: constructing another TestServer leaves the connected agents, the
\* lifecycle handlers, the published-message history, the log records and
\* the scheduled events of the existing instances unchanged.
C13_ConstructionLeavesOthersAlone ==
    [][NewServerStep =>
          /\ connected_agents' = connected_agents
          /\ lifecycle_methods' = lifecycle_methods
          /\ published_messages' = published_messages
          /\ log_messages' = log_messages
          /\ scheduled_events' = scheduled_events]_vars

(***************************************************************************)
(* Properties of the router's subscriptions and history.                   *)
(***************************************************************************)
\* the messages of the history from position from + 1 on whose topic
\* matches the pattern, in the order of the history
MatchingSince(history, from, prefix) ==
    SelectSeq(SubSeq(history, from + 1, Len(history)),
              LAMBDA msg : Matches(prefix, msg.topic))

\* C22: the received-messages view of a subscription holds, in publish
\* order, exactly the messages published since it was created or last
\* reset whose topic matches its pattern: it is empty when the subscription
\* is created, a publish appends the published message to it if the topic
\* matches and leaves it alone otherwise, so that it always is the matching
\* part of an end piece of the history; resetting the view of one
\* subscription empties that view and changes neither the history nor the
\* view of any other subscription.
C22_ViewHoldsMatchingSinceReset ==
    /\ [](\A i \in DOMAIN subscribers :
             subscribers[i].registered =>
                 \E from \in 0..Len(published_messages) :
                     subscribers[i].received =
                         MatchingSince(published_messages, from, subscribers[i].prefix))
    /\ [][Len(subscribers') = Len(subscribers) + 1 =>
             subscribers'[Len(subscribers')].received = <<>>]_vars
    /\ [][PublishStep =>
             \A i \in DOMAIN subscribers :
                 subscribers[i].registered =>
                     subscribers'[i].received =
                         IF Matches(subscribers[i].prefix, last_delivery'.topic)
                         THEN Append(subscribers[i].received,
                                     published_messages'[Len(published_messages')])
                         ELSE subscribers[i].received]_vars
    /\ [][\A i \in DOMAIN subscribers :
             ResetReceivedMessages(i) =>
                 /\ subscribers'[i].received = <<>>
                 /\ published_messages' = published_messages
                 /\ \A j \in DOMAIN subscribers :
                        j # i => subscribers'[j] = subscribers[j]]_vars

\* a subscription received a message, was reset and received the next
\* message alone, while another subscription holds both
C22_Witness ==
    /\ Len(published_messages) = 2
    /\ \E i, j \in DOMAIN subscribers :
           /\ subscribers[i].received = <<published_messages[2]>>
           /\ Matches(subscribers[i].prefix, published_messages[1].topic)
           /\ subscribers[j].received = published_messages
           /\ subscribers[i].registered /\ subscribers[j].registered

\* C23: a subscription removed by unsubscribe or clear_all has its
\* callback invoked by no later publish and receives nothing more, while
\* every subscription still registered whose pattern matches is delivered
\* the message; after clear_all no callback is invoked at all.
C23_RemovedSubscriptionsGetNothing ==
    /\ [][\A i \in DOMAIN subscribers :
             ~subscribers[i].registered => ~subscribers'[i].registered]_vars
    /\ [][PublishStep =>
             \A i \in DOMAIN subscribers :
                 IF subscribers[i].registered
                 THEN Matches(subscribers[i].prefix, last_delivery'.topic) =>
                          /\ Cardinality(CallsOf(last_delivery'.calls, subscribers[i].id)) = 1
                          /\ Len(subscribers'[i].received) =
                                 Len(subscribers[i].received) + 1
                 ELSE /\ CallsOf(last_delivery'.calls, subscribers[i].id) = {}
                      /\ subscribers'[i].received = subscribers[i].received]_vars
    /\ [][ClearAll => \A i \in DOMAIN subscribers : ~subscribers'[i].registered]_vars

\* two subscriptions received a message; one was removed, and the next
\* message, which matches both patterns, reached the other one alone
C23_Witness ==
    /\ Len(subscribers) = 2
    /\ ~subscribers[1].registered /\ subscribers[2].registered
    /\ Len(published_messages) = 2
    /\ Len(subscribers[1].received) = 1
    /\ Len(subscribers[2].received) = 2
    /\ Matches(subscribers[1].prefix, published_messages[2].topic)
    /\ Cardinality(CallsOf(last_delivery.calls, 2)) = 1
    /\ CallsOf(last_delivery.calls, 1) = {}

\* C24: the history lists the messages in the order of the publish calls,
\* with strictly increasing sequence numbers, none of them used twice: the
\* i-th publish appends the i-th entry, which carries its topic and message
\* and a sequence number above all earlier ones.
C24_HistoryOrderedBySequence ==
    /\ [](\A i, j \in DOMAIN published_messages :
             i < j => published_messages[i].sequence < published_messages[j].sequence)
    /\ [][\A t \in Topics, m \in Messages :
             (PublishStep /\ ServerPublish(t, HeadersNone, m, DefaultBus)) =>
                 /\ Len(published_messages') = publish_calls'
                 /\ SubSeq(published_messages', 1, Len(published_messages)) =
                        published_messages
                 /\ published_messages'[publish_calls'].topic = t
                 /\ published_messages'[publish_calls'].message = m]_vars

\* two publishes with different topics are in the history in call order
C24_Witness ==
    /\ publish_calls = 2
    /\ Len(published_messages) = 2
    /\ published_messages[1].topic = T_dcsa
    /\ published_messages[2].topic = T_dca
    /\ published_messages[1].sequence < published_messages[2].sequence


(***************************************************************************)
(* Properties of scheduling, triggering and cancelling events.             *)
(***************************************************************************)
\* the callbacks scheduled and the arguments stored with them
ScheduledCalls ==
    {[callback |-> "cb_mul", args |-> ArgsTen, kwargs |-> KwargsMul3],
     [callback |-> "cb_fail", args |-> ArgsEmpty, kwargs |-> KwargsEmpty]}

\* scheduling with every kind of argument: agents connect and schedule
\* events of the three kinds, each of which is triggered once at most, and
\* A1 cancels its events
NextScheduling ==
    \/ \E a \in {"A1", "A2"} : ConnectAgent(1, a, NoneStr)
    \/ /\ Len(events) < MaxEvents
       /\ \E a \in {"A1", "A2"}, c \in ScheduledCalls, period \in Periods :
              Periodic(a, c.callback, period, c.args, c.kwargs)
    \/ /\ Len(events) < MaxEvents
       /\ \E sa \in StoredArguments, cron \in CronSchedules :
              Cron("A1", "cb_mul", cron, sa.args, sa.kwargs)
    \/ /\ Len(events) < MaxEvents
       /\ \E t \in ScheduledTimes : Schedule("A1", "cb_mul", t, ArgsEmpty, KwargsEmpty)
    \/ \E e \in DOMAIN events :
           /\ ~events[e].cancelled /\ events[e].run_count = 0
           /\ Trigger(e)
    \/ CancelAll("A1")

SpecScheduling == Init /\ [][NextScheduling]_vars

\* a step that is one call of periodic, cron or schedule
ScheduleStep == last_call'.op = "schedule" /\ Len(events') = Len(events) + 1

\* how often event e occurs in a list of events
Occurrences(list, e) == Cardinality({k \in DOMAIN list : list[k] = e})

\* what a call of periodic, cron or schedule leaves behind for the new event
\* created from the given arguments under the identity id
Scheduled(id, event_type, callback, args, kwargs, period, cron_schedule, scheduled_time) ==
    LET e == Len(events) + 1
        ev == events'[e]
    IN  /\ DOMAIN events' = 1..e
        /\ last_call' = Call("schedule", e, "returned", NoneNum)
        /\ ev.run_count = 0 /\ ev.last_run = NoneNum /\ ev.cancelled = FALSE
        /\ ev.event_type = event_type /\ ev.callback = callback
        /\ ev.args = args /\ ev.kwargs = kwargs
        /\ ev.period = period /\ ev.cron_schedule = cron_schedule
        /\ ev.scheduled_time = scheduled_time
        /\ callback_calls'[e] = <<>>
        /\ \A o \in DOMAIN events :
              events'[o] = events[o] /\ callback_calls'[o] = callback_calls[o]
        /\ id \in DOMAIN scheduled_events'
        /\ scheduled_events'[id] = Append(GetScheduledEvents(scheduled_events, id), e)
        /\ Occurrences(scheduled_events'[id], e) = 1
        /\ \A other \in DOMAIN scheduled_events' \ {id} :
              /\ other \in DOMAIN scheduled_events
              /\ scheduled_events'[other] = scheduled_events[other]

\* C25: scheduling an event via periodic, cron or schedule never invokes its
\* callback: the returned event has run_count 0, last_run unset and
\* cancelled false, carries the given kind, callback, args, kwargs and
\* period / cron expression / time, and is appended to the owning identity's
\* list of scheduled events exactly once, nothing else being touched.
C25_SchedulingRegistersWithoutRunning ==
    [][ScheduleStep =>
        \A a \in Agents, cb \in SchedCallbacks, sa \in StoredArguments :
          /\ \A period \in Periods :
                Periodic(a, cb, period, sa.args, sa.kwargs) =>
                    Scheduled(IdentityOf(a), "periodic", cb, sa.args, sa.kwargs,
                              period, NoneStr, NoneNum)
          /\ \A cron \in CronSchedules :
                Cron(a, cb, cron, sa.args, sa.kwargs) =>
                    Scheduled(IdentityOf(a), "cron", cb, sa.args, sa.kwargs,
                              NoneNum, cron, NoneNum)
          /\ \A t \in ScheduledTimes :
                Schedule(a, cb, t, sa.args, sa.kwargs) =>
                    Scheduled(IdentityOf(a), "time", cb, sa.args, sa.kwargs,
                              NoneNum, NoneStr, t)]_vars

\* an event of each of two kinds has been scheduled with stored arguments,
\* the second just now under an identity that already has one, and no
\* callback has run
C25_Witness ==
    /\ last_call = Call("schedule", 2, "returned", NoneNum)
    /\ Len(events) = 2
    /\ events[1].event_type = "periodic" /\ events[1].args = ArgsTen
    /\ events[2].event_type = "cron" /\ events[2].kwargs = KwargsMul3
    /\ "agent1" \in DOMAIN scheduled_events
    /\ scheduled_events["agent1"] = <<1, 2>>
    /\ callback_calls[1] = <<>> /\ callback_calls[2] = <<>>
    /\ events[2].run_count = 0 /\ events[2].last_run = NoneNum

\* the identities under whose list event e is registered
OwnersOf(sched, e) ==
    {id \in DOMAIN sched : \E k \in DOMAIN sched[id] : sched[id][k] = e}

\* C26: every schedule operation (periodic, cron, schedule) validates that
\* its owner is an identity currently connected to the harness: an event is
\* registered only under an identity that is connected at that moment.
C26_ScheduleOwnerIsConnected ==
    [][ScheduleStep =>
        \A id \in OwnersOf(scheduled_events', Len(events')) :
            id \in DOMAIN connected_agents]_vars

\* the call of its callback that a trigger step adds to event e
NewCall(e) == callback_calls'[e][Len(callback_calls'[e])]

\* a trigger step of event e, which is not cancelled
ActiveTriggerStep(e) ==
    /\ TriggerStep(e)
    /\ ~events[e].cancelled

\* C27 (as amended): trigger on a non-cancelled event updates the
\* bookkeeping first and invokes the callback afterwards, exactly once:
\* while the callback is executing, the event's run_count and last_run
\* already hold the values of this trigger, which are the values the caller
\* finds when the trigger is over, whether the callback returned or raised.
C27_BookkeepingBeforeCallback ==
    [][\A e \in DOMAIN events :
          ActiveTriggerStep(e) =>
              /\ Len(callback_calls'[e]) = Len(callback_calls[e]) + 1
              /\ SubSeq(callback_calls'[e], 1, Len(callback_calls[e])) = callback_calls[e]
              /\ NewCall(e).run_count_seen = events[e].run_count + 1
              /\ NewCall(e).last_run_seen = now
              /\ events'[e].run_count = NewCall(e).run_count_seen
              /\ events'[e].last_run = NewCall(e).last_run_seen]_vars

\* the second trigger of an event, later than the first: its callback saw
\* run_count 2 and the time of this trigger
C27_Witness ==
    /\ last_call.op = "trigger"
    /\ last_call.outcome = "returned"
    /\ LET e == last_call.event
       IN  /\ Len(callback_calls[e]) = 2
           /\ callback_calls[e][1].run_count_seen = 1
           /\ callback_calls[e][1].last_run_seen = 0
           /\ callback_calls[e][2].run_count_seen = 2
           /\ callback_calls[e][2].last_run_seen = 1
           /\ events[e].run_count = 2 /\ events[e].last_run = 1

\* C27 (as stated): trigger on a non-cancelled event invokes the callback
\* first and updates the bookkeeping afterwards: while the callback is
\* executing, run_count and last_run still hold their pre-trigger values,
\* and they are updated only once the callback has been invoked.
C27_CallbackBeforeBookkeeping ==
    [][\A e \in DOMAIN events :
          ActiveTriggerStep(e) =>
              /\ Len(callback_calls'[e]) = Len(callback_calls[e]) + 1
              /\ NewCall(e).run_count_seen = events[e].run_count
              /\ NewCall(e).last_run_seen = events[e].last_run]_vars

\* delayed runs: two agents connect and schedule events, the server starts
\* runs of them that are delayed to the end of the modelled period, more
\* than one for the same event too, while time passes and the agents cancel
NextDelayed ==
    \/ \E a \in {"A1", "A2"} : ConnectAgent(1, a, NoneStr)
    \/ /\ Len(events) < MaxEvents
       /\ \E a \in {"A1", "A2"} : Periodic(a, "cb_mul", 5, ArgsEmpty, KwargsEmpty)
    \/ /\ Len(greenlets) < MaxDelayed
       /\ \E e \in DOMAIN events : RunWithGreenlet(e, MaxSchedTime)
    \/ \E g \in DOMAIN greenlets : GreenletRun(g)
    \/ \E a \in {"A1", "A2"} : CancelAll(a)
    \/ Tick(MaxSchedTime)

SpecDelayed == Init /\ [][NextDelayed]_vars

\* the step runs trigger_scheduled_event on event e, called directly or by
\* the greenlet of a delayed run
TriggeredIn(e) ==
    \/ last_call'.op = "trigger" /\ last_call'.event = e /\ Trigger(e)
    \/ \E g \in DOMAIN greenlets :
          /\ greenlets[g].event = e
          /\ greenlets[g].state = "spawned"
          /\ greenlets'[g].state = "done"

\* C28: run_count and last_run change only in trigger_scheduled_event and
\* always together: in every reachable state an event has last_run set if
\* and only if run_count > 0, each trigger of an active event raises
\* run_count by exactly 1 and sets last_run, a step that is no such trigger
\* leaves both as they are, and successive last_run values of one event
\* never decrease.
C28_RunCountAndLastRunMoveTogether ==
    /\ [](\A e \in DOMAIN events :
             /\ events[e].run_count >= 0
             /\ (events[e].last_run # NoneNum) <=> (events[e].run_count > 0))
    /\ [][\A e \in DOMAIN events :
             /\ e \in DOMAIN events'
             /\ (TriggeredIn(e) /\ ~events[e].cancelled) =>
                    /\ events'[e].run_count = events[e].run_count + 1
                    /\ events'[e].last_run = now
                    /\ events'[e].last_run >= events[e].last_run
             /\ ~(TriggeredIn(e) /\ ~events[e].cancelled) =>
                    /\ events'[e].run_count = events[e].run_count
                    /\ events'[e].last_run = events[e].last_run]_vars

\* an event was triggered directly and, later, by a delayed run: it has run
\* twice and last_run is the time of the second run
C28_Witness ==
    \E e \in DOMAIN events, g \in DOMAIN greenlets :
        /\ greenlets[g].event = e
        /\ greenlets[g].state = "done"
        /\ greenlets[g].outcome = "returned"
        /\ events[e].run_count = 2
        /\ events[e].last_run = 1
        /\ Len(callback_calls[e]) = 2
        /\ callback_calls[e][1].last_run_seen = 0

\* the events agent a has scheduled through its schedule wrapper
EventsOf(a) == Range(ScheduleWrapperOf(a)._events)

\* a step that is one call of cancel_all on the schedule wrapper of agent a
CancelStep(a) == last_call' = Returned /\ CancelAll(a)

\* C29: cancel_all on an agent's schedule wrapper sets cancelled on every
\* event that agent has scheduled and stops every delayed task still in
\* flight for those events, also when several delayed runs were started for
\* the same event, and leaves the events and tasks of every other agent
\* unchanged.
C29_CancelAllStopsEveryDelayedRun ==
    [][\A a \in Agents :
          CancelStep(a) =>
              /\ \A e \in DOMAIN events :
                    IF e \in EventsOf(a)
                    THEN events'[e] = [events[e] EXCEPT !.cancelled = TRUE]
                    ELSE events'[e] = events[e]
              /\ \A g \in DOMAIN greenlets :
                    IF greenlets[g].event \in EventsOf(a) /\ greenlets[g].state = "spawned"
                    THEN greenlets'[g].state = "killed"
                    ELSE greenlets'[g] = greenlets[g]]_vars

\* C30: if an event is cancelled after run_scheduled_event_with_greenlet
\* spawned its delayed task and before the task has run, the task never
\* invokes the event's callback and leaves run_count as it is, however the
\* task and the cancelling caller interleave: the task is killed, and a
\* killed task never runs, or it ends with the error of a trigger on a
\* cancelled event; cancel_all does not undo a trigger that has happened.
C30_CancelledBeforeDelayNeverRuns ==
    /\ [][\A g \in DOMAIN greenlets :
             LET e == greenlets[g].event
             IN  /\ (greenlets[g].state = "spawned" /\ events[e].cancelled) =>
                        \/ /\ greenlets'[g] = greenlets[g]
                        \/ /\ greenlets'[g] = [greenlets[g] EXCEPT !.state = "killed"]
                           /\ callback_calls' = callback_calls
                        \/ /\ greenlets'[g] = [greenlets[g] EXCEPT !.state = "done",
                                                                   !.outcome = "ValueError"]
                           /\ callback_calls' = callback_calls
                           /\ events' = events
                 /\ greenlets[g].state = "killed" => greenlets'[g] = greenlets[g]]_vars
    /\ [][\A a \in Agents :
             CancelStep(a) =>
                 /\ callback_calls' = callback_calls
                 /\ \A e \in DOMAIN events :
                       /\ events'[e].run_count = events[e].run_count
                       /\ events'[e].last_run = events[e].last_run]_vars
    /\ [](\A e \in DOMAIN events : Len(callback_calls[e]) = events[e].run_count)

\* two delayed runs of one event were waiting when the event was cancelled:
\* one was killed, the other ran when its delay was over and failed, and
\* the callback has not been called
C30_Witness ==
    \E g, h \in DOMAIN greenlets :
        /\ greenlets[g].event = greenlets[h].event
        /\ greenlets[g].state = "done"
        /\ greenlets[g].outcome = "ValueError"
        /\ greenlets[h].state = "killed"
        /\ now >= greenlets[g].run_at
        /\ events[greenlets[g].event].cancelled
        /\ events[greenlets[g].event].run_count = 0
        /\ callback_calls[greenlets[g].event] = <<>>

(***************************************************************************)
(* Properties of delayed runs.                                             *)
(***************************************************************************)
\* a delayed run from its start to the join: an agent connects and
\* schedules an event, the server starts a delayed run of it that is due
\* within the modelled period and joins it, time passes and the agent may
\* cancel
NextJoin ==
    \/ ConnectAgent(1, "A1", NoneStr)
    \/ /\ Len(events) < MaxSchedEvents
       /\ \E cb \in SchedCallbacks : Periodic("A1", cb, 5, ArgsEmpty, KwargsEmpty)
    \/ /\ Len(greenlets) < MaxGreenlets
       /\ \E e \in DOMAIN events, delay \in 0..MaxSchedTime :
              /\ now + delay <= MaxSchedTime
              /\ RunWithGreenlet(e, delay)
    \/ \E g \in DOMAIN greenlets : GreenletRun(g)
    \/ \E g \in DOMAIN greenlets : Join(g)
    \/ CancelAll("A1")
    \/ Tick(MaxSchedTime)

\* the hub runs a greenlet that is ready once the caller yields, and time
\* does not stand still
SpecJoinFair ==
    /\ Init
    /\ [][NextJoin]_vars
    /\ WF_vars(\E g \in DOMAIN greenlets : GreenletRun(g))
    /\ WF_vars(Tick(MaxSchedTime))

\* the delayed run g is waiting for an event that is not cancelled
Waiting(g) ==
    /\ g \in DOMAIN greenlets
    /\ greenlets[g].state = "spawned"
    /\ ~events[greenlets[g].event].cancelled

\* the delayed run g has triggered its event, or its event is cancelled
TriggeredOrCancelled(g) ==
    /\ g \in DOMAIN greenlets
    /\ \/ greenlets[g].state = "done" /\ greenlets[g].outcome \in {"returned", "raised"}
       \/ events[greenlets[g].event].cancelled

BeforeTimeout == now - verify.start_time < verify.timeout

\* verify_event_scheduled with a positive timeout beside a concurrent
\* greenlet: the agent has no event when the call starts, and while the
\* call sleeps between two polls and its timeout has not elapsed the
\* greenlet schedules periodic events for the agent; nothing is cancelled
NextPoll ==
    \/ ConnectAgent(1, "A1", NoneStr)
    \/ \E f \in VerifyFilters, timeout \in 1..MaxTimeout :
           /\ verify.pc = "idle"
           /\ now + timeout <= MaxTime
           /\ VerifyCall("agent1", f[1], f[2], f[3], timeout)
    \/ /\ verify.pc = "sleeping"
       /\ BeforeTimeout
       /\ Len(events) < MaxEvents
       /\ \E period \in Periods : Periodic("A1", "cb_mul", period, ArgsEmpty, KwargsEmpty)
    \/ VerifyWake
    \/ Tick(MaxTime)

SpecPoll == Init /\ [][NextPoll]_vars

\* C32: verify_event_scheduled yields to other greenlets between polls: if
\* a concurrent greenlet schedules a matching non-cancelled event for the
\* owner strictly before the timeout elapses, verify_event_scheduled
\* returns True; it returns False only when no such event was scheduled.
C32_ScheduledBeforeTimeoutIsFound ==
    (verify.pc = "done" /\ verify.result = "False") =>
        ~ScanFindsEvent(scheduled_events, events, verify.identity, verify.event_type,
                        verify.period, verify.cron_schedule)

(***************************************************************************)
(* Publishing from inside a callback (PublishFromHandlerTestAgent): a      *)
(* handler subscribed to every topic publishes a second topic unless the   *)
(* topic it is called with starts with that second topic.                  *)
(***************************************************************************)
\* the prefix '' that matches every topic
P_empty == <<>>
\* what the handler publishes and the test it makes on the topic it gets
NestedTopic == T_ot
NestedPrefix == <<Lit("o"), Lit("/"), Lit("t")>>
NestedMessage == "Test message"

\* a handler that never publishes
RepublishesNever(fn, topic) == FALSE

\* onmessage: if not topic.startswith(<second topic>): publish(<second topic>)
Republishes(fn, topic) == fn = "cb_republish" /\ ~Matches(NestedPrefix, topic)

\* publish and its delivery loop when a callback may call publish itself:
\* st holds the subscriptions, the history and the callback invocations
\* made so far; the nested publish runs to its end inside the callback
RECURSIVE PublishReentrant(_, _, _, _, _)
RECURSIVE DispatchReentrant(_, _, _)
DispatchReentrant(st, msg, i) ==
    IF i > Len(st.subscribers) THEN st
    ELSE LET sub == st.subscribers[i]
         IN  IF sub.registered /\ Matches(sub.prefix, msg.topic)
             THEN LET st1 == [st EXCEPT !.subscribers[i].received = Append(@, msg),
                                        !.calls = @ \o InvokeCallback(sub, msg)]
                      st2 == IF Republishes(sub.callback.fn, msg.topic)
                             THEN PublishReentrant(st1, NestedTopic, HeadersNone,
                                                   NestedMessage, DefaultBus)
                             ELSE st1
                  IN  DispatchReentrant(st2, msg, i + 1)
             ELSE DispatchReentrant(st, msg, i + 1)

PublishReentrant(st, topic, headers, message, bus) ==
    LET msg == PublishedMessage(Len(st.published_messages) + 1, topic, headers,
                                message, bus)
    IN  DispatchReentrant([st EXCEPT !.published_messages = Append(@, msg)], msg, 1)

\* server.publish(topic, headers, message, bus) with callbacks that may
\* publish: every publish call, the nested ones too, is counted
ServerPublishNested(topic, headers, message, bus) ==
    /\ LET r == PublishReentrant([subscribers |-> subscribers,
                                  published_messages |-> published_messages,
                                  calls |-> <<>>],
                                 topic, headers, message, bus)
       IN  /\ subscribers' = r.subscribers
           /\ published_messages' = r.published_messages
           /\ last_delivery' = [topic |-> topic, calls |-> r.calls]
           /\ publish_calls' =
                  publish_calls + (Len(r.published_messages) - Len(published_messages))
           /\ last_call' = Call("publish", 0, PublishOutcome(r.calls), NoneNum)
    /\ UNCHANGED <<server_subscribers, subscribe_requests>>
    /\ UNCHANGED <<registryVars, schedVars, now, verify, auxVars>>

\* handlers that publish: the server subscribes handlers of the three
\* kinds to every topic or to the d/ topics and publishes
NextReentrant ==
    \/ /\ Len(subscribers) < MaxSubs
       /\ \E p \in {P_empty, P_d_any}, cb \in Callbacks \cup {"cb_republish"} :
              ServerSubscribe(1, p, cb)
    \/ /\ Len(published_messages) < MaxPublish
       /\ \E t \in {T_dca, T_ot} : ServerPublishNested(t, HeadersNone, "m1", DefaultBus)

SpecReentrant == Init /\ [][NextReentrant]_vars

\* the registered subscriptions that get topic t and whose handler is the
\* publishing one, if t is a topic on which that handler publishes
Republishers(t) ==
    {i \in DOMAIN subscribers :
        /\ subscribers[i].registered
        /\ Matches(subscribers[i].prefix, t)
        /\ subscribers[i].callback.fn = "cb_republish"
        /\ t # NestedTopic}

\* the calls of a delivery made for subscriber id with this message
CallsWith(calls, id, message) ==
    {k \in DOMAIN calls : calls[k].sub = id /\ calls[k].message = message}

\* a step that is one call of publish from outside a callback
OuterPublishStep == last_call'.op = "publish" /\ Len(published_messages') > Len(published_messages)

\* C33: delivery is synchronous and re-entrant: when publish returns, every
\* matching subscription's callback has already run; if a callback itself
\* publishes another message, the outer message precedes the nested one in
\* the history, the nested message is delivered to its matching
\* subscriptions before the outer publish returns, and the outer publish
\* terminates when the handler does not publish again on the topic it
\* publishes: one nested publish is made per matching handler that
\* publishes, and none by the nested delivery.
C33_DeliveryIsSynchronousAndReentrant ==
    [][\A t \in Topics :
          (OuterPublishStep /\ ServerPublishNested(t, HeadersNone, "m1", DefaultBus)) =>
              LET first == Len(published_messages) + 1
                  last == Len(published_messages')
                  calls == last_delivery'.calls
              IN  /\ published_messages'[first].topic = t
                  /\ published_messages'[first].message = "m1"
                  /\ last - first = Cardinality(Republishers(t))
                  /\ \A k \in (first + 1)..last :
                        /\ published_messages'[k].topic = NestedTopic
                        /\ published_messages'[k].message = NestedMessage
                        /\ published_messages'[k].sequence >
                               published_messages'[first].sequence
                  /\ \A i \in DOMAIN subscribers :
                        /\ Cardinality(CallsWith(calls, subscribers[i].id, "m1")) =
                               IF Matches(subscribers[i].prefix, t) THEN 1 ELSE 0
                        /\ Cardinality(CallsWith(calls, subscribers[i].id, NestedMessage)) =
                               IF Matches(subscribers[i].prefix, NestedTopic)
                               THEN last - first ELSE 0
                        /\ Len(subscribers'[i].received) =
                               Len(subscribers[i].received)
                               + Cardinality(CallsOf(calls, subscribers[i].id))
                  /\ \A k \in DOMAIN calls :
                        calls[k].message = NestedMessage =>
                            \E j \in 1..(k - 1) :
                                /\ calls[j].message = "m1"
                                /\ calls[j].fn = "cb_republish"]_vars

\* a handler subscribed to every topic published from inside its callback:
\* the history holds the outer message and then the nested one, and the
\* handler was called with both before publish returned
C33_Witness ==
    /\ last_call.op = "publish"
    /\ Len(published_messages) = 2
    /\ published_messages[1].topic = T_dca
    /\ published_messages[2].topic = NestedTopic
    /\ published_messages[2].message = NestedMessage
    /\ \E i \in DOMAIN subscribers :
          /\ subscribers[i].callback.fn = "cb_republish"
          /\ subscribers[i].received = published_messages
          /\ Cardinality(CallsOf(last_delivery.calls, subscribers[i].id)) = 2

\* the calls of a delivery whose callback raised
RaisedCalls(calls) == {k \in DOMAIN calls : calls[k].outcome = "raised"}

\* C34: an exception raised by a subscriber callback never reaches the
\* caller of publish: publish returns normally and the message is in the
\* history, whichever matching subscription failed and however many
\* failed; the subscriptions after the failing one are still called.
C34_CallbackErrorsStayInsidePublish ==
    [][\A t \in Topics :
          (OuterPublishStep /\ ServerPublishNested(t, HeadersNone, "m1", DefaultBus)) =>
              LET first == Len(published_messages) + 1
                  calls == last_delivery'.calls
              IN  /\ last_call'.outcome = "returned"
                  /\ published_messages'[first] =
                         PublishedMessage(first, t, HeadersNone, "m1", DefaultBus)
                  /\ SubSeq(published_messages', 1, first - 1) = published_messages
                  /\ \A i \in DOMAIN subscribers :
                        (subscribers[i].registered /\ Matches(subscribers[i].prefix, t)) =>
                            /\ Cardinality(CallsWith(calls, subscribers[i].id, "m1")) = 1
                            /\ CallbackRaises(subscribers[i].callback.fn) =>
                                   CallsWith(calls, subscribers[i].id, "m1")
                                       \subseteq RaisedCalls(calls)]_vars

\* a publish in which the callback of every matching subscription raised,
\* two of them, has returned with the message in the history
C34_Witness ==
    /\ last_call.op = "publish"
    /\ last_call.outcome = "returned"
    /\ Len(published_messages) >= 1
    /\ Len(last_delivery.calls) = 2
    /\ Cardinality(RaisedCalls(last_delivery.calls)) = 2
    /\ published_messages[Len(published_messages)].topic = last_delivery.topic

(***************************************************************************)
(* Properties of lifecycle handlers that raise.                            *)
(***************************************************************************)
\* lifecycle triggers with handlers that raise: agents connect and the
\* server triggers setup, start and stop with keyword arguments on which
\* the handler returns or raises
NextLifecycleErrors ==
    \/ \E a \in Agents : ConnectAgent(1, a, NoneStr)
    \/ /\ Len(trigger_log) < MaxTriggers
       /\ \E id \in Identities, hook \in Hooks, kwargs \in {KwargsEmpty, KwargsFail} :
              TriggerLifecycle(id, hook, "admin", kwargs)

SpecLifecycleErrors == Init /\ [][NextLifecycleErrors]_vars

\* a step that is one lifecycle trigger
LifecycleStep == Len(trigger_log') = Len(trigger_log) + 1

\* C35: an exception raised by an agent's setup / start / stop handler
\* during a lifecycle trigger reaches the caller of the trigger; the handler
\* is called once only (no retry, no queuing) and the agent stays connected
\* with its handlers still triggerable: a later trigger calls the handler
\* again, once.
C35_HandlerErrorReachesCaller ==
    [][\A id \in Identities, hook \in Hooks, kwargs \in {KwargsEmpty, KwargsFail} :
          (LifecycleStep /\ Declares(id, hook)
                         /\ TriggerLifecycle(id, hook, "admin", kwargs)) =>
              LET agent == connected_agents[id]
              IN  /\ handler_calls' = Append(handler_calls,
                          [self |-> agent, method |-> HandlerName(agent, hook),
                           sender |-> "admin", kwargs |-> kwargs])
                  /\ last_call'.outcome = IF kwargs = KwargsFail THEN "raised"
                                          ELSE "returned"
                  /\ kwargs = KwargsFail => last_result' = NoResult
                  /\ connected_agents' = connected_agents
                  /\ lifecycle_methods' = lifecycle_methods
                  /\ Declares(id, hook)']_vars

\* the handler of a hook raised and the next trigger of the same hook on the
\* same agent called it again and returned
C35_Witness ==
    /\ Len(trigger_log) = 2
    /\ trigger_log[1].outcome = "raised"
    /\ trigger_log[2].outcome = "returned"
    /\ trigger_log[1].identity = trigger_log[2].identity
    /\ trigger_log[1].hook = trigger_log[2].hook
    /\ Len(handler_calls) = 2
    /\ handler_calls[1].method = handler_calls[2].method
    /\ trigger_log[1].identity \in DOMAIN connected_agents
(***************************************************************************)
(* Subscriptions whose pattern is a plain topic prefix.                    *)
(***************************************************************************)
\* the pattern a plain string compiles to: one literal for each character
PlainPattern(text) == [i \in 1..Len(text) |-> Lit(text[i])]

\* the nested prefixes of the topic d/c/a, the topic itself included
PrefixTexts == {<<"d">>, <<"d", "/", "c">>, T_dca}

\* subscriptions to plain prefixes, made on the server, and publishes on a
\* topic below them, on a longer topic and on an unrelated one
NextPrefix ==
    \/ /\ Len(subscribers) < MaxPrefixSubs
       /\ \E text \in PrefixTexts : ServerSubscribe(1, PlainPattern(text), "cb_ok")
    \/ /\ publish_calls < MaxPublish
       /\ \E t \in Topics : ServerPublish(t, HeadersNone, "m1", DefaultBus)

SpecPrefix == Init /\ [][NextPrefix]_vars

\* the string a plain pattern was compiled from
TextOf(p) == [i \in 1..Len(p) |-> p[i][2]]

\* topic.startswith(text)
StartsWith(topic, text) ==
    /\ Len(text) <= Len(topic)
    /\ \A i \in 1..Len(text) : topic[i] = text[i]

\* C36: a subscription whose pattern is a plain topic prefix receives every
\* message whose topic starts with that prefix, the exact topic included,
\* once (its callback is called once for it), and receives no message on a
\* topic that does not start with the prefix.
C36_PlainPrefixReceivesTopicsBelowIt ==
    [][publish_calls' = publish_calls + 1 =>
          LET msg == published_messages'[Len(published_messages')]
          IN  \A i \in DOMAIN subscribers :
                  IF StartsWith(msg.topic, TextOf(subscribers[i].prefix))
                  THEN /\ subscribers'[i].received =
                              Append(subscribers[i].received, msg)
                       /\ Cardinality({k \in DOMAIN last_delivery'.calls :
                              last_delivery'.calls[k].sub = subscribers[i].id}) = 1
                  ELSE /\ subscribers'[i].received = subscribers[i].received
                       /\ \A k \in DOMAIN last_delivery'.calls :
                              last_delivery'.calls[k].sub # subscribers[i].id]_vars

\* three subscriptions to the three nested prefixes of d/c/a, the topic
\* itself among them, each received the one message published on d/c/a and
\* nothing of the message published on the unrelated topic o/t
C36_Witness ==
    /\ Len(subscribers) = 3
    /\ {TextOf(subscribers[i].prefix) : i \in DOMAIN subscribers} = PrefixTexts
    /\ Len(published_messages) = 2
    /\ {published_messages[k].topic : k \in 1..2} = {T_dca, T_ot}
    /\ \A i \in DOMAIN subscribers :
           /\ Len(subscribers[i].received) = 1
           /\ subscribers[i].received[1].topic = T_dca
(***************************************************************************)
(* Subscribing after messages were published.                              *)
(***************************************************************************)
\* a step that is one call of subscribe
SubscribeStep == Len(subscribe_requests') = Len(subscribe_requests) + 1

\* C37: subscribe does not replay history: the subscription it creates has
\* received none of the messages published before, and the call leaves the
\* history of published messages and the received view of every existing
\* subscription unchanged.
C37_SubscribeDoesNotReplayHistory ==
    [][SubscribeStep =>
          /\ Len(subscribers') = Len(subscribers) + 1
          /\ subscribers'[Len(subscribers')].received = <<>>
          /\ published_messages' = published_messages
          /\ \A i \in DOMAIN subscribers :
                 subscribers'[i].received = subscribers[i].received]_vars

\* two messages are in the history, the older subscription has received
\* both, and a subscription with a pattern that matches both was created
\* after them and has received nothing
C37_Witness ==
    /\ Len(published_messages) = 2
    /\ Len(subscribers) = 2
    /\ subscribers[1].received = published_messages
    /\ subscribers[2].received = <<>>
    /\ \A k \in 1..2 : Matches(subscribers[2].prefix, published_messages[k].topic)
    /\ last_call = Returned
(***************************************************************************)
(* Lifecycle triggers for identities that are not connected.               *)
(***************************************************************************)
\* C38: a lifecycle trigger for an identity that was never connected fails
\* with the error of the connection check, which comes before the lookup of
\* the handlers; no handler is called and the identity is not registered in
\* any of the server's dictionaries.
C38_TriggerOfUnconnectedIdentityFails ==
    [][\A id \in Identities :
          (LifecycleStep /\ trigger_log'[Len(trigger_log')].identity = id
                         /\ id \notin DOMAIN connected_agents) =>
              /\ trigger_log'[Len(trigger_log')].outcome = "ValueError"
              /\ trigger_log'[Len(trigger_log')].raised_by = "__check_connected__"
              /\ last_call'.outcome = "ValueError"
              /\ handler_calls' = handler_calls
              /\ last_result' = NoResult
              /\ id \notin DOMAIN connected_agents'
              /\ id \notin DOMAIN lifecycle_methods'
              /\ id \notin DOMAIN pubsub_wrappers'
              /\ id \notin DOMAIN schedule_wrappers'
              /\ id \notin DOMAIN agent_log']_vars

\* agent1 is connected and its start handler has run; the trigger for
\* agent2, which was never connected, failed and left agent2 unregistered
C38_Witness ==
    /\ Len(trigger_log) = 2
    /\ trigger_log[1].identity = "agent1"
    /\ trigger_log[1].outcome = "returned"
    /\ trigger_log[2].identity = "agent2"
    /\ trigger_log[2].outcome = "ValueError"
    /\ Len(handler_calls) = 1
    /\ DOMAIN connected_agents = {"agent1"}
(***************************************************************************)
(* The four registries connect_agent writes.                               *)
(***************************************************************************)
\* agents connect, among them one whose handlers cannot be discovered, and
\* the server triggers lifecycle events
NextConnect ==
    \/ \E a \in Agents \cup {MultiLineDefAgent}, logger \in Loggers :
           ConnectAgent(1, a, logger)
    \/ /\ Len(trigger_log) < MaxTriggers
       /\ \E id \in Identities, hook \in Hooks :
              TriggerLifecycle(id, hook, "admin", KwargsEmpty)

SpecConnect == Init /\ [][NextConnect]_vars

\* C39: in every state reachable by connect_agent calls, successful or
\* failing, the identities with a connected-agent entry, with a
\* lifecycle-handler entry, with a pubsub wrapper and with a schedule
\* wrapper are the same: connect_agent registers all four for an identity
\* or none.
C39_RegistriesHoldTheSameIdentities ==
    /\ DOMAIN lifecycle_methods = DOMAIN connected_agents
    /\ DOMAIN pubsub_wrappers = DOMAIN connected_agents
    /\ DOMAIN schedule_wrappers = DOMAIN connected_agents
(***************************************************************************)
(* The list of the events scheduled for an identity.                       *)
(***************************************************************************)
\* two agents schedule periodic and cron events and cancel them, and the
\* test reads the lists by agent and by identity string
NextEvents ==
    \/ \E a \in {"A1", "A2"} : ConnectAgent(1, a, NoneStr)
    \/ /\ Len(events) < MaxEvents
       /\ \E a \in {"A1", "A2"} : Periodic(a, "cb_mul", 5, ArgsEmpty, KwargsEmpty)
    \/ /\ Len(events) < MaxEvents
       /\ \E a \in {"A1", "A2"} : Cron(a, "cb_mul", "0 * * * *", ArgsEmpty, KwargsEmpty)
    \/ \E a \in {"A1", "A2"} : CancelAll(a)
    \/ \E x \in {"A1", "A2", "agent1", "agent2"} : GetScheduledEventsCall(x)

SpecEvents == Init /\ [][NextEvents]_vars

\* the events scheduled through the wrapper of the identity so far, oldest
\* first
ScheduledFor(id) ==
    IF id \in DOMAIN schedule_wrappers
    THEN SelectSeq([e \in 1..Len(events) |-> e],
                   LAMBDA e : e \in Range(schedule_wrappers[id]._events))
    ELSE <<>>

\* a step that is one call of get_scheduled_events
GetScheduledEventsStep == last_call'.op = "get_scheduled_events"

\* C40: scheduled events are never removed: get_scheduled_events returns
\* every event ever scheduled for the identity, cancelled ones included, in
\* scheduling order; for an identity without events it returns an empty
\* list and creates no entry; called with the agent it returns what it
\* returns for the agent's identity string.
C40_ScheduledEventsAreKept ==
    /\ [][\A id \in DOMAIN scheduled_events :
             /\ id \in DOMAIN scheduled_events'
             /\ Len(scheduled_events'[id]) >= Len(scheduled_events[id])
             /\ SubSeq(scheduled_events'[id], 1, Len(scheduled_events[id])) =
                    scheduled_events[id]]_vars
    /\ [][GetScheduledEventsStep =>
             LET x == last_result'.of
                 id == IF x \in Agents THEN IdentityOf(x) ELSE x
             IN  /\ last_result'.items = ScheduledFor(id)
                 /\ scheduled_events' = scheduled_events
                 /\ events' = events
                 /\ (id \notin DOMAIN scheduled_events) => last_result'.items = <<>>]_vars

\* agent1 scheduled two events and cancelled them, and the list read with
\* the agent object holds both, the older first
C40_Witness ==
    /\ last_call.op = "get_scheduled_events"
    /\ last_result.kind = "events"
    /\ last_result.of = "A1"
    /\ last_result.items = <<1, 2>>
    /\ events[1].cancelled /\ events[2].cancelled
    /\ "agent2" \in DOMAIN connected_agents
    /\ "agent2" \notin DOMAIN scheduled_events
=============================================================================
